---- MODULE Spec2Model ----
(***************************************************************************)
(* Model of the todo-extraction pipeline of slackbot-for-todo:             *)
(*   services/todo_extractor.py  TodoExtractor.extract_todos and           *)
(*                               TodoExtractor._parse_tool_calls           *)
(*   prompts/todo_extraction.py  get_todo_extraction_prompt and            *)
(*                               get_todo_extraction_function_schema       *)
(*                                                                         *)
(* Python values are tagged records so that values of different Python     *)
(* types stay comparable.  A raised exception is a result record whose     *)
(* exc field names the exception class; "none" means normal completion.    *)
(***************************************************************************)
EXTENDS Integers, Sequences, FiniteSets, TLC

VARIABLES
    pc,                 \* "idle", then "extracted" or "parsed": the call that was made
    messages,           \* extract_todos: the messages argument
    last_bot_message,   \* extract_todos: the last_bot_message argument
    response,           \* the Gateway response handed to the decoder
    gateway_log,        \* the calls made to the Gateway, in order
    gateway_error,      \* the exception the Gateway call raised ("none": none)
    result,             \* what the call handed to its caller
    \* llm/client.py
    client_pc,          \* "new", then "failed" or "ready", then "called"
    config,             \* the arguments and environment of create_llm_client
    created_client,     \* the constructed client, NoClient when there is none
    backend,            \* how the backend answers the request of the call
    backend_requests,   \* the requests sent to the backend, in order
    client_call,        \* the arguments of the generate_with_tools call
    client_result,      \* what the client call handed to its caller
    \* prompts/todo_extraction.py
    prompt_calls,       \* the prompt and schema built for each extraction so far
    handed_schema,      \* the schema object of the latest extraction, as its
                        \* holder has left it
    \* interleaved extract_todos invocations on one TodoExtractor
    frames,             \* the local variables of each invocation
    transport,          \* the requests sent through the shared client, in order
    replies,            \* the replies that arrived at the shared client, in order
    \* services/slack_service.py
    slack_pc,           \* "idle", then "fetched" or "looked": the call that was made
    slack_world,        \* the platform as the call finds it
    slack_call,         \* the arguments of the call
    slack_result,       \* what the call handed to its caller
    \* api/app.py: the module's globals
    service_globals,    \* llm_client, todo_extractor and slack_service
    service_log,        \* what each get_services call did, in order
    \* api/app.py: POST /extract-todos
    api_pc,             \* "idle", then "answered"
    api_request,        \* the request body
    api_platform,       \* the channels and how each of them behaves
    api_response,       \* the HTTP response
    api_effects         \* the calls made to the Slack service and the extractor

extractor_vars ==
    <<pc, messages, last_bot_message, response, gateway_log, gateway_error, result>>
client_vars ==
    <<client_pc, config, created_client, backend, backend_requests, client_call, client_result>>
prompt_vars == <<prompt_calls, handed_schema>>
concurrent_vars == <<frames, transport, replies>>
slack_vars == <<slack_pc, slack_world, slack_call, slack_result>>
service_vars == <<service_globals, service_log>>
api_vars == <<api_pc, api_request, api_platform, api_response, api_effects>>
vars ==
    <<extractor_vars, client_vars, prompt_vars, concurrent_vars, slack_vars, service_vars,
      api_vars>>

(***************************************************************************)
(* Bounds of the model.                                                    *)
(***************************************************************************)
\* most tool calls in one Gateway response
MaxCalls == 2
\* most todo entries in one Gateway response, over all its tool calls; a tool
\* call that carries no list of entries counts as one entry
MaxTodos == 2
\* most messages handed to one extraction
MaxMessages == 1
\* most messages in one transcript of the prompt builder
MaxTranscript == 2
\* most extractions for which a prompt and a schema are built
MaxPromptCalls == 2
\* most messages in the history of a channel
MaxHistory == 3
\* most calls of get_services
MaxServiceCalls == 3
\* most channels on the platform
MaxChannels == 2

(***************************************************************************)
(* JSON / Python values.                                                   *)
(***************************************************************************)
\* a key that is missing from a dict
Absent == [t |-> "absent", v |-> ""]
\* Python None / JSON null
None == [t |-> "null", v |-> ""]
Str(s) == [t |-> "str", v |-> s]

\* dict.get(key) with the default None: a missing key reads as None
DictGet(value) == IF value = Absent THEN None ELSE value
\* dict.get(key, default)
GetDefault(value, default) == IF value = Absent THEN default ELSE value

\* one element of a todos array: an object with its two fields, or a
\* non-object (number, string, null, ...)
DictEntry(d, a) == [isdict |-> TRUE, description |-> d, assigned_to |-> a]
NonDictEntry == [isdict |-> FALSE, description |-> Absent, assigned_to |-> Absent]

Entries ==
    { NonDictEntry,
      DictEntry(Absent, Str("Sam")),
      DictEntry(Str(""), Str("Lee")),
      DictEntry(Str("a"), Absent),
      DictEntry(Str("b"), None),
      DictEntry(Str("b"), Str("Ana")),
      DictEntry(None, Absent) }

\* the value under the key "todos" of the parsed arguments.  For a string the
\* items are its characters and for an object its keys: iterating either
\* yields strings, which are not objects.
Todos(t, items) == [t |-> t, items |-> items]
TodosAbsent == Todos("absent", <<>>)
NonListTodos ==
    { TodosAbsent, Todos("null", <<>>), Todos("num", <<>>), Todos("bool", <<>>),
      Todos("str", <<NonDictEntry>>), Todos("dict", <<NonDictEntry>>) }

\* the value under the key "arguments" of a tool call's function part:
\*   absent   the key is missing
\*   nonstr   a value that is not text (None, a dict, a number)
\*   badjson  text that is not JSON
\*   nonobj   text that is JSON but not an object (a list, a number, null)
\*   obj      text that is a JSON object, whose "todos" is given
Arguments(t, todos) == [t |-> t, todos |-> todos]
ArgsObj(todos) == Arguments("obj", todos)
ArgsAbsent == Arguments("absent", TodosAbsent)
ArgsBadJson == Arguments("badjson", TodosAbsent)

\* one element of the response's tool_calls
\*   isdict    the tool call is a mapping
\*   function  "absent": no function key, "null": function is None, "dict"
\*   name      the function name, Absent when the key is missing
ToolCall(fn, name, args) ==
    [isdict |-> TRUE, function |-> fn, name |-> name, arguments |-> args]
NonDictCall ==
    [isdict |-> FALSE, function |-> "absent", name |-> Absent, arguments |-> ArgsAbsent]
NoFunctionCall == ToolCall("absent", Absent, ArgsAbsent)
ExtractCall(args) == ToolCall("dict", Str("extract_todos"), args)
OtherCall(args) == ToolCall("dict", Str("other_tool"), args)

\* the Gateway's reply
\*   isdict      the response is a mapping
\*   tool_calls  the value under "tool_calls": absent, null, num (non-zero),
\*               str (non-empty text, items are its characters) or list
Response(isdict, t, items) ==
    [isdict |-> isdict, tool_calls |-> [t |-> t, items |-> items]]
NoResponse == Response(FALSE, "absent", <<>>)

(***************************************************************************)
(* TodoExtractor._parse_tool_calls                                         *)
(***************************************************************************)
\* a step's outcome: the exception it raised ("none": it completed) and the
\* todos list as the step left it
Completed(todos) == [exc |-> "none", todos |-> todos]
Raised(exc, todos) == [exc |-> exc, todos |-> todos]

\* bool(value) of the value under "tool_calls": a missing key reads as None,
\* None and the empty list are falsy
Truthy(value) ==
    /\ value.t \notin {"absent", "null"}
    /\ ~(value.t = "list" /\ value.items = <<>>)

\* len(value) is defined for sequences, strings and dicts; it raises
\* TypeError for None, numbers and booleans
HasLen(value) == value.t \in {"list", "str", "dict", "absent"}

\* value[:50] is defined for strings; it raises TypeError for None
Sliceable(value) == value.t = "str"

\* json.loads: TypeError when the argument is not text, JSONDecodeError when
\* the text is not JSON, the parsed value otherwise.  A missing "arguments"
\* key was replaced by the text "{}" and parses to the empty object.
json_loads(arguments_str) ==
    CASE arguments_str.t = "nonstr" -> [exc |-> "TypeError", value |-> arguments_str]
      [] arguments_str.t = "badjson" -> [exc |-> "JSONDecodeError", value |-> arguments_str]
      [] arguments_str.t = "absent" -> [exc |-> "none", value |-> ArgsObj(TodosAbsent)]
      [] OTHER -> [exc |-> "none", value |-> arguments_str]

\* validated_todo with todo.get("assigned_to", "") for todo.get("assigned_to")
validated_todo_empty_default(todo) ==
    [description |-> DictGet(todo.description),
     assigned_to |-> GetDefault(todo.assigned_to, Str(""))]

\* the record built from an accepted entry
validated_todo(todo) ==
    [description |-> DictGet(todo.description), assigned_to |-> DictGet(todo.assigned_to)]

\* validate_todo without the isinstance test: "description" in todo raises
\* TypeError for an entry that is not a container
validate_todo_no_isinstance(todo, todos) ==
    CASE ~todo.isdict -> Raised("TypeError", todos)
      [] todo.description = Absent -> Completed(todos)
      [] Sliceable(validated_todo(todo).description) ->
            Completed(Append(todos, validated_todo(todo)))
      [] OTHER -> Raised("TypeError", Append(todos, validated_todo(todo)))

\* validate_todo with todos.insert(0, validated_todo) for todos.append
validate_todo_insert_front(todo, todos) ==
    IF todo.isdict /\ todo.description # Absent
    THEN LET inserted == <<validated_todo(todo)>> \o todos
         IN  IF Sliceable(validated_todo(todo).description)
             THEN Completed(inserted)
             ELSE Raised("TypeError", inserted)
    ELSE Completed(todos)

\* one pass of the loop over todos_list: the entry is appended when it is an
\* object with a "description" key; the debug line then slices the description
validate_todo(todo, todos) ==
    IF todo.isdict /\ todo.description # Absent
    THEN LET appended == Append(todos, validated_todo(todo))
         IN  IF Sliceable(validated_todo(todo).description)
             THEN Completed(appended)
             ELSE Raised("TypeError", appended)
    ELSE Completed(todos)

RECURSIVE validate_todos(_, _, _)
validate_todos(todos_list, i, todos) ==
    IF i > Len(todos_list)
    THEN Completed(todos)
    ELSE LET step == validate_todo(todos_list[i], todos)
         IN  IF step.exc # "none"
             THEN step
             ELSE validate_todos(todos_list, i + 1, step.todos)

\* the body of the try block around json.loads, for an extract_todos call
decode_arguments(arguments_str, todos) ==
    LET loaded == json_loads(arguments_str)
    IN  CASE loaded.exc # "none" -> Raised(loaded.exc, todos)
          [] loaded.value.t # "obj" -> Raised("AttributeError", todos)
          [] ~HasLen(loaded.value.todos) -> Raised("TypeError", todos)
          [] OTHER -> validate_todos(loaded.value.todos.items, 1, todos)

\* process_tool_call without the inner except json.JSONDecodeError clause
process_tool_call_no_inner_except(tool_call, todos) ==
    CASE ~tool_call.isdict -> Raised("AttributeError", todos)
      [] tool_call.function = "null" -> Raised("AttributeError", todos)
      [] tool_call.function = "absent" -> Completed(todos)
      [] tool_call.name # Str("extract_todos") -> Completed(todos)
      [] OTHER -> decode_arguments(tool_call.arguments, todos)

\* process_tool_call without the test of the function name
process_tool_call_no_name_test(tool_call, todos) ==
    CASE ~tool_call.isdict -> Raised("AttributeError", todos)
      [] tool_call.function = "null" -> Raised("AttributeError", todos)
      [] OTHER ->
            LET decoded == decode_arguments(tool_call.arguments, todos)
            IN  IF decoded.exc = "JSONDecodeError"
                THEN Completed(decoded.todos)
                ELSE decoded

\* one pass of the loop over response["tool_calls"]
process_tool_call(tool_call, todos) ==
    CASE ~tool_call.isdict -> Raised("AttributeError", todos)
      [] tool_call.function = "null" -> Raised("AttributeError", todos)
      [] tool_call.function = "absent" -> Completed(todos)
      [] tool_call.name # Str("extract_todos") -> Completed(todos)
      [] OTHER ->
            LET decoded == decode_arguments(tool_call.arguments, todos)
            IN  IF decoded.exc = "JSONDecodeError"
                THEN Completed(decoded.todos)
                ELSE decoded

RECURSIVE process_tool_calls(_, _, _)
process_tool_calls(tool_calls, i, todos) ==
    IF i > Len(tool_calls)
    THEN Completed(todos)
    ELSE LET step == process_tool_call(tool_calls[i], todos)
         IN  IF step.exc # "none"
             THEN step
             ELSE process_tool_calls(tool_calls, i + 1, step.todos)

\* the body of the outer try block
parse_tool_calls_body(resp) ==
    CASE ~resp.isdict -> Raised("AttributeError", <<>>)
      [] ~Truthy(resp.tool_calls) -> Completed(<<>>)
      [] ~HasLen(resp.tool_calls) -> Raised("TypeError", <<>>)
      [] OTHER -> process_tool_calls(resp.tool_calls.items, 1, <<>>)

\* what a call hands to its caller: the exception that left it, and the
\* returned list
Returned(value) == [raised |-> "none", value |-> value]
Propagated(exc) == [raised |-> exc, value |-> <<>>]

\* _parse_tool_calls with an outer handler for json.JSONDecodeError only
parse_tool_calls_narrow_except(resp) ==
    LET body == parse_tool_calls_body(resp)
    IN  CASE body.exc = "none" -> Returned(body.todos)
          [] body.exc = "JSONDecodeError" -> Returned(<<>>)
          [] OTHER -> Propagated(body.exc)

\* _parse_tool_calls: every exception of the body is caught and turned into []
parse_tool_calls(resp) ==
    LET body == parse_tool_calls_body(resp)
    IN  IF body.exc # "none" THEN Returned(<<>>) ELSE Returned(body.todos)

(***************************************************************************)
(* prompts/todo_extraction.py                                              *)
(***************************************************************************)
\* a message: every key holds a string, or Absent when the key is missing
Message(user_name, user, text, ts, timestamp_readable) ==
    [user_name |-> user_name, user |-> user, text |-> text, ts |-> ts,
     timestamp_readable |-> timestamp_readable]

\* dict.get(key, default)
GetOr(value, default) == IF value = Absent THEN default ELSE value

\* bool(value) of a string or None
NonEmpty(value) == value \notin {Absent, None, Str("")}

\* the line "[timestamp] user: text" of one message, as its three parts
message_line(msg) ==
    [timestamp |-> GetOr(msg.timestamp_readable, GetOr(msg.ts, Str(""))),
     user |-> IF NonEmpty(msg.user_name)
              THEN msg.user_name
              ELSE GetOr(msg.user, Str("Unknown")),
     text |-> GetOr(msg.text, Str(""))]

NoBotMessage == Message(Absent, Absent, Absent, Absent, Absent)

\* get_todo_extraction_prompt leaving out the messages whose text is empty
get_todo_extraction_prompt_skip_empty(msgs, bot_message) ==
    LET HasText(msg) == NonEmpty(msg.text)
        kept == SelectSeq(msgs, HasText)
    IN  [messages_text |-> [i \in 1..Len(kept) |-> message_line(kept[i])],
         bot_message_text |->
            IF bot_message # NoBotMessage
            THEN <<"# Last Bot Message from the Channel:",
                   GetOr(bot_message.timestamp_readable, GetOr(bot_message.ts, Str(""))),
                   GetOr(bot_message.text, Str(""))>>
            ELSE <<>>,
         special_instructions |->
            IF bot_message # NoBotMessage
            THEN "- Refer to the last bot message from the channel when extracting todos to avoid duplicates."
            ELSE ""]

\* get_todo_extraction_prompt with the instruction line in every prompt
get_todo_extraction_prompt_always_instructs(msgs, bot_message) ==
    [messages_text |-> [i \in 1..Len(msgs) |-> message_line(msgs[i])],
     bot_message_text |->
        IF bot_message # NoBotMessage
        THEN <<"# Last Bot Message from the Channel:",
               GetOr(bot_message.timestamp_readable, GetOr(bot_message.ts, Str(""))),
               GetOr(bot_message.text, Str(""))>>
        ELSE <<>>,
     special_instructions |->
        "- Refer to the last bot message from the channel when extracting todos to avoid duplicates."]

\* get_todo_extraction_prompt with messages_text kept in a module-level
\* variable: the lines of earlier calls stay in it
get_todo_extraction_prompt_accumulates(msgs, bot_message) ==
    [messages_text |->
        (IF prompt_calls = <<>>
         THEN <<>>
         ELSE prompt_calls[Len(prompt_calls)].prompt.messages_text)
        \o [i \in 1..Len(msgs) |-> message_line(msgs[i])],
     bot_message_text |->
        IF bot_message # NoBotMessage
        THEN <<"# Last Bot Message from the Channel:",
               GetOr(bot_message.timestamp_readable, GetOr(bot_message.ts, Str(""))),
               GetOr(bot_message.text, Str(""))>>
        ELSE <<>>,
     special_instructions |->
        IF bot_message # NoBotMessage
        THEN "- Refer to the last bot message from the channel when extracting todos to avoid duplicates."
        ELSE ""]

\* the prompt, as the parts the template is filled with: the transcript
\* lines, the "Last Bot Message" section and the cross-reference instruction
get_todo_extraction_prompt(msgs, bot_message) ==
    [messages_text |-> [i \in 1..Len(msgs) |-> message_line(msgs[i])],
     bot_message_text |->
        IF bot_message # NoBotMessage
        THEN <<"# Last Bot Message from the Channel:",
               GetOr(bot_message.timestamp_readable, GetOr(bot_message.ts, Str(""))),
               GetOr(bot_message.text, Str(""))>>
        ELSE <<>>,
     special_instructions |->
        IF bot_message # NoBotMessage
        THEN "- Refer to the last bot message from the channel when extracting todos to avoid duplicates."
        ELSE ""]

\* the tool schema: one function, extract_todos({todos: [{description,
\* assigned_to}]})
extract_todos_schema ==
    << [type |-> "function",
        name |-> "extract_todos",
        parameters |->
            [type |-> "object",
             required |-> <<"todos">>,
             todos |-> [type |-> "array",
                        items |-> [type |-> "object",
                                   required |-> <<"description">>,
                                   description |-> [type |-> "string", nullable |-> FALSE],
                                   assigned_to |-> [type |-> "string", nullable |-> TRUE]]]]] >>

\* get_todo_extraction_function_schema returning one module-level list: the
\* object handed out before, as its holder has left it
get_todo_extraction_function_schema_shared ==
    IF handed_schema = <<>> THEN extract_todos_schema ELSE handed_schema

\* every call evaluates the list display anew and returns a new object
get_todo_extraction_function_schema == extract_todos_schema

\* the prompt function's effect: the prompt it returns, and its arguments as
\* it leaves them; it only reads them, with dict.get
prompt_call(msgs, bot_message) ==
    [prompt |-> get_todo_extraction_prompt(msgs, bot_message),
     messages |-> msgs,
     last_bot_message |-> bot_message]

(***************************************************************************)
(* TodoExtractor.extract_todos                                             *)
(***************************************************************************)
\* the Gateway as the extraction sees it: the call raises, or returns resp
Gateway(raises, resp) == [raises |-> raises, response |-> resp]

\* the record of one call to the Gateway
generate_with_tools_call(prompt, tools) ==
    [method |-> "generate_with_tools", prompt |-> prompt, tools |-> tools,
     temperature |-> "0.3", max_tokens |-> 2000]

\* what one extraction does: the calls it makes to the Gateway, the response
\* it received, the exception the Gateway call raised ("none": none) and what
\* it hands to its caller
Extraction(calls, resp, error, outcome) ==
    [calls |-> calls, response |-> resp, error |-> error, outcome |-> outcome]

\* the try block of extract_todos without its except clause
extract_todos_try_no_except(llm_client, call) ==
    IF llm_client.raises
    THEN Extraction(<<call>>, NoResponse, "Exception", Propagated("Exception"))
    ELSE LET todos == parse_tool_calls(llm_client.response)
         IN  Extraction(<<call>>, llm_client.response, "none", todos)

\* the try block of extract_todos with one more attempt after a failed call
extract_todos_try_retry(llm_client, call) ==
    IF llm_client.raises
    THEN Extraction(<<call, call>>, NoResponse, "Exception", Returned(<<>>))
    ELSE LET todos == parse_tool_calls(llm_client.response)
         IN  Extraction(<<call>>, llm_client.response, "none", Returned(todos.value))

\* the try block of extract_todos: the Gateway call, then the decoder; every
\* exception raised inside it is caught and turned into []
extract_todos_try(llm_client, call) ==
    IF llm_client.raises
    THEN Extraction(<<call>>, NoResponse, "Exception", Returned(<<>>))
    ELSE LET todos == parse_tool_calls(llm_client.response)
         IN  IF todos.raised # "none"
             THEN Extraction(<<call>>, llm_client.response, "none", Returned(<<>>))
             ELSE Extraction(<<call>>, llm_client.response, "none", Returned(todos.value))

\* extract_todos without the test for an empty message list
extract_todos_no_empty_test(msgs, bot_message, llm_client) ==
    extract_todos_try(
        llm_client,
        generate_with_tools_call(get_todo_extraction_prompt(msgs, bot_message),
                                 get_todo_extraction_function_schema))

extract_todos(msgs, bot_message, llm_client) ==
    IF msgs = <<>>
    THEN Extraction(<<>>, NoResponse, "none", Returned(<<>>))
    ELSE extract_todos_try(
            llm_client,
            generate_with_tools_call(get_todo_extraction_prompt(msgs, bot_message),
                                     get_todo_extraction_function_schema))

(***************************************************************************)
(* extract_todos invocations that run interleaved                          *)
(***************************************************************************)
\* the local variables of one invocation of extract_todos
\*   pc  "idle", "entered" (prompt and schema built), "calling" (the request
\*       is sent), "replied" (the reply arrived), "done"
Frame(at, msgs, bot_message, prompt, tools, resp, outcome) ==
    [pc |-> at, messages |-> msgs, last_bot_message |-> bot_message,
     prompt |-> prompt, tools |-> tools, response |-> resp, result |-> outcome]

\* lines 38-63: the test for no messages, then the prompt and the schema
extract_todos_enter(msgs, bot_message) ==
    IF msgs = <<>>
    THEN Frame("done", msgs, bot_message,
               get_todo_extraction_prompt(<<>>, NoBotMessage), <<>>,
               NoResponse, Returned(<<>>))
    ELSE Frame("entered", msgs, bot_message,
               get_todo_extraction_prompt(msgs, bot_message),
               get_todo_extraction_function_schema,
               NoResponse, Returned(<<>>))

\* the reply an invocation reads from a response kept on the shared client:
\* the one that arrived last, whoever it answers
received_latest(self, arrived) == arrived[Len(arrived)].gateway

\* the reply an invocation reads: create() returns the reply to the request
\* of this call into the local variable response
received(self, arrived) ==
    LET IsOwn(reply) == reply.to = self
        own == SelectSeq(arrived, IsOwn)
    IN  own[Len(own)].gateway

(***************************************************************************)
(* llm/client.py: construction of a client                                 *)
(***************************************************************************)
\* an exception: its class and the parts of its message
Exc(class, message) == [class |-> class, message |-> message]
NoExc == Exc("none", <<>>)

\* a client object, and the place of one that was never constructed
Client(class, api_key, model) == [class |-> class, api_key |-> api_key, model |-> model]
NoClient == Client("none", None, "")

\* what a constructor or the factory hands back
Constructed(client) == [raised |-> NoExc, client |-> client]
NotConstructed(exc) == [raised |-> exc, client |-> NoClient]

\* str.lower() on the provider names of the model
Lower(provider) ==
    CASE provider = "OpenAI" -> "openai"
      [] provider = "GROQ" -> "groq"
      [] provider = "Anthropic" -> "anthropic"
      [] OTHER -> provider

\* `a or b` on strings and None
Or(a, b) == IF NonEmpty(a) THEN a ELSE b

\* os.getenv(name): None when the variable is not set
GetEnv(value) == IF value = Absent THEN None ELSE value

\* OpenAIClient.__init__ without the test of the api key
OpenAIClient_init_no_key_test(api_key, env, libraries) ==
    IF "openai" \notin libraries
    THEN NotConstructed(Exc("ImportError", <<"OpenAI library is not installed. Install it with: pip install openai">>))
    ELSE Constructed(Client("OpenAIClient", Or(api_key, GetEnv(env.OPENAI_API_KEY)),
                            "gpt-4o-mini"))

OpenAIClient_init(api_key, env, libraries) ==
    CASE "openai" \notin libraries ->
            NotConstructed(Exc("ImportError", <<"OpenAI library is not installed. Install it with: pip install openai">>))
      [] ~NonEmpty(Or(api_key, GetEnv(env.OPENAI_API_KEY))) ->
            NotConstructed(Exc("ValueError", <<"OpenAI API key is required. Set OPENAI_API_KEY environment variable.">>))
      [] OTHER ->
            Constructed(Client("OpenAIClient", Or(api_key, GetEnv(env.OPENAI_API_KEY)),
                               "gpt-4o-mini"))

GroqClient_init(api_key, env, libraries) ==
    CASE "groq" \notin libraries ->
            NotConstructed(Exc("ImportError", <<"Groq library is not installed. Install it with: pip install groq">>))
      [] ~NonEmpty(Or(api_key, GetEnv(env.GROQ_API_KEY))) ->
            NotConstructed(Exc("ValueError", <<"Groq API key is required. Set GROQ_API_KEY environment variable.">>))
      [] OTHER ->
            Constructed(Client("GroqClient", Or(api_key, GetEnv(env.GROQ_API_KEY)),
                               "llama-3.1-70b-versatile"))

create_llm_client(provider, api_key, env, libraries) ==
    CASE Lower(provider) = "openai" -> OpenAIClient_init(api_key, env, libraries)
      [] Lower(provider) = "groq" -> GroqClient_init(api_key, env, libraries)
      [] OTHER ->
            NotConstructed(Exc("ValueError",
                <<"Unsupported LLM provider: ", provider, ". Supported providers: 'openai', 'groq'">>))

(***************************************************************************)
(* llm/client.py: generate_with_tools                                      *)
(***************************************************************************)
\* text as the sequence of its characters
RECURSIVE LStrip(_)
LStrip(chars) ==
    IF chars # <<>> /\ Head(chars) = " " THEN LStrip(Tail(chars)) ELSE chars

RECURSIVE RStrip(_)
RStrip(chars) ==
    IF chars # <<>> /\ chars[Len(chars)] = " "
    THEN RStrip(SubSeq(chars, 1, Len(chars) - 1))
    ELSE chars

\* str.strip()
Strip(chars) == RStrip(LStrip(chars))

\* the arguments of one generate_with_tools call; kwargs holds the extra
\* keyword arguments, Absent for a keyword that is not given
ClientCallArgs(prompt, tools, temperature, max_tokens, kwargs) ==
    [prompt |-> prompt, tools |-> tools, temperature |-> temperature,
     max_tokens |-> max_tokens, kwargs |-> kwargs]
Kwargs(tool_choice, top_p) == [tool_choice |-> tool_choice, top_p |-> top_p]

\* the backend's answer to a request: an error with its diagnostic message,
\* a reply without choices, or a reply whose first choice holds message
BackendError(class, diagnostic) ==
    [kind |-> "error", class |-> class, diagnostic |-> diagnostic,
     message |-> [content |-> [t |-> "null", chars |-> <<>>],
                  tool_calls |-> [t |-> "null", items |-> <<>>]]]
BackendNoChoices ==
    [kind |-> "nochoices", class |-> "none", diagnostic |-> "",
     message |-> [content |-> [t |-> "null", chars |-> <<>>],
                  tool_calls |-> [t |-> "null", items |-> <<>>]]]
BackendReply(content, tool_calls) ==
    [kind |-> "message", class |-> "none", diagnostic |-> "",
     message |-> [content |-> content, tool_calls |-> tool_calls]]

\* one tool call of the backend's message
BackendToolCall(type, id, name, arguments) ==
    [type |-> type, id |-> id, name |-> name, arguments |-> arguments]

\* what one client call does: the requests it sends and what it hands back
ClientCall(requests, outcome) == [requests |-> requests, outcome |-> outcome]
NoResult == [content |-> <<>>, tool_calls |-> <<>>]
ClientReturned(value) == [raised |-> NoExc, value |-> value]
ClientRaised(exc) == [raised |-> exc, value |-> NoResult]

\* tool_choice is passed by name, so a tool_choice in **kwargs is a duplicate
DuplicateKeyword(kwargs) == kwargs.tool_choice # Absent

\* the loop over message.tool_calls: the calls of type "function", in order
FunctionCalls(tool_calls) ==
    LET IsFunction(tool_call) == tool_call.type = "function"
        kept == SelectSeq(tool_calls, IsFunction)
    IN  [k \in 1..Len(kept) |->
            [id |-> kept[k].id,
             function |-> [name |-> kept[k].name, arguments |-> kept[k].arguments]]]

\* the keyword arguments of chat.completions.create as OpenAIClient builds them; a
\* keyword given both by name and in **kwargs is a TypeError and nothing is
\* sent
OpenAIClient_create(self, call) ==
    IF DuplicateKeyword(call.kwargs)
    THEN [exc |-> Exc("TypeError", <<"got multiple values for keyword argument 'tool_choice'">>),
          requests |-> <<>>]
    ELSE [exc |-> NoExc,
          requests |-> << [api_key |-> self.api_key,
                           model |-> self.model,
                           system |-> "You are a helpful assistant that extracts and structures information from text. Use the provided tools to extract todos.",
                           user |-> call.prompt,
                           tools |-> call.tools,
                           tool_choice |-> "auto",
                           temperature |-> call.temperature,
                           max_tokens |-> call.max_tokens,
                           top_p |-> call.kwargs.top_p] >>]

\* the result dictionary built from the reply's message
OpenAIClient_result(message) ==
    [content |-> IF message.content.t = "str" /\ message.content.chars # <<>>
                 THEN Strip(message.content.chars)
                 ELSE <<>>,
     tool_calls |-> IF message.tool_calls.t = "list"
                    THEN FunctionCalls(message.tool_calls.items)
                    ELSE <<>>]

\* the except clause: any exception becomes one Exception with the prefix
OpenAIClient_error(exc) ==
    Exc("Exception", <<"Error calling OpenAI API with tools: ">> \o exc.message)

\* OpenAIClient.generate_with_tools with a second attempt after a backend error
OpenAIClient_generate_with_tools_retry(self, call, how) ==
    LET sent == OpenAIClient_create(self, call)
    IN  CASE sent.exc # NoExc ->
                ClientCall(sent.requests, ClientRaised(OpenAIClient_error(sent.exc)))
          [] how.kind = "error" ->
                ClientCall(sent.requests \o sent.requests,
                           ClientRaised(OpenAIClient_error(Exc(how.class, <<how.diagnostic>>))))
          [] how.kind = "nochoices" ->
                ClientCall(sent.requests,
                           ClientRaised(OpenAIClient_error(Exc("IndexError", <<"list index out of range">>))))
          [] OTHER ->
                ClientCall(sent.requests, ClientReturned(OpenAIClient_result(how.message)))

OpenAIClient_generate_with_tools(self, call, how) ==
    LET sent == OpenAIClient_create(self, call)
    IN  CASE sent.exc # NoExc ->
                ClientCall(sent.requests, ClientRaised(OpenAIClient_error(sent.exc)))
          [] how.kind = "error" ->
                ClientCall(sent.requests,
                           ClientRaised(OpenAIClient_error(Exc(how.class, <<how.diagnostic>>))))
          [] how.kind = "nochoices" ->
                ClientCall(sent.requests,
                           ClientRaised(OpenAIClient_error(Exc("IndexError", <<"list index out of range">>))))
          [] OTHER ->
                ClientCall(sent.requests, ClientReturned(OpenAIClient_result(how.message)))

\* GroqClient's request with **kwargs applied over the named keywords
GroqClient_create_kwargs_override(self, call) ==
    [exc |-> NoExc,
     requests |-> << [api_key |-> self.api_key,
                      model |-> self.model,
                      system |-> "You are a helpful assistant that extracts and structures information from text. Use the provided tools to extract todos.",
                      user |-> call.prompt,
                      tools |-> call.tools,
                      tool_choice |-> IF call.kwargs.tool_choice = Absent
                                      THEN "auto"
                                      ELSE call.kwargs.tool_choice.v,
                      temperature |-> call.temperature,
                      max_tokens |-> call.max_tokens,
                      top_p |-> call.kwargs.top_p] >>]

\* the keyword arguments of chat.completions.create as GroqClient builds them; a
\* keyword given both by name and in **kwargs is a TypeError and nothing is
\* sent
GroqClient_create(self, call) ==
    IF DuplicateKeyword(call.kwargs)
    THEN [exc |-> Exc("TypeError", <<"got multiple values for keyword argument 'tool_choice'">>),
          requests |-> <<>>]
    ELSE [exc |-> NoExc,
          requests |-> << [api_key |-> self.api_key,
                           model |-> self.model,
                           system |-> "You are a helpful assistant that extracts and structures information from text. Use the provided tools to extract todos.",
                           user |-> call.prompt,
                           tools |-> call.tools,
                           tool_choice |-> "auto",
                           temperature |-> call.temperature,
                           max_tokens |-> call.max_tokens,
                           top_p |-> call.kwargs.top_p] >>]

\* GroqClient's result dictionary with the tool calls of every type
GroqClient_result_all_types(message) ==
    [content |-> IF message.content.t = "str" /\ message.content.chars # <<>>
                 THEN Strip(message.content.chars)
                 ELSE <<>>,
     tool_calls |-> IF message.tool_calls.t = "list"
                    THEN [k \in 1..Len(message.tool_calls.items) |->
                            [id |-> message.tool_calls.items[k].id,
                             function |-> [name |-> message.tool_calls.items[k].name,
                                           arguments |-> message.tool_calls.items[k].arguments]]]
                    ELSE <<>>]

\* the result dictionary built from the reply's message
GroqClient_result(message) ==
    [content |-> IF message.content.t = "str" /\ message.content.chars # <<>>
                 THEN Strip(message.content.chars)
                 ELSE <<>>,
     tool_calls |-> IF message.tool_calls.t = "list"
                    THEN FunctionCalls(message.tool_calls.items)
                    ELSE <<>>]

\* the except clause: any exception becomes one Exception with the prefix
GroqClient_error(exc) ==
    Exc("Exception", <<"Error calling Groq API with tools: ">> \o exc.message)

GroqClient_generate_with_tools(self, call, how) ==
    LET sent == GroqClient_create(self, call)
    IN  CASE sent.exc # NoExc ->
                ClientCall(sent.requests, ClientRaised(GroqClient_error(sent.exc)))
          [] how.kind = "error" ->
                ClientCall(sent.requests,
                           ClientRaised(GroqClient_error(Exc(how.class, <<how.diagnostic>>))))
          [] how.kind = "nochoices" ->
                ClientCall(sent.requests,
                           ClientRaised(GroqClient_error(Exc("IndexError", <<"list index out of range">>))))
          [] OTHER ->
                ClientCall(sent.requests, ClientReturned(GroqClient_result(how.message)))

\* the method of the client's class
generate_with_tools(self, call, how) ==
    IF self.class = "OpenAIClient"
    THEN OpenAIClient_generate_with_tools(self, call, how)
    ELSE GroqClient_generate_with_tools(self, call, how)

(***************************************************************************)
(* services/slack_service.py                                               *)
(***************************************************************************)
\* a platform message; "" stands for a key that is missing or None.  The text
\* is a sequence of tokens: a word, a mention "<@ID>" of a user ID, or the
\* "@name" a mention was replaced with
SlackMessage(user, user_name, bot_id, text, ts) ==
    [user |-> user, user_name |-> user_name, bot_id |-> bot_id, text |-> text, ts |-> ts]
Text(tokens) == [present |-> TRUE, tokens |-> tokens]
NoText == [present |-> FALSE, tokens |-> <<>>]
Word(w) == [kind |-> "word", v |-> w]
Mention(user_id) == [kind |-> "mention", v |-> user_id]
AtName(user_name) == [kind |-> "name", v |-> user_name]

\* the answer of users.info for one user: the lookup fails, or it returns the
\* user's names ("" for a name that is missing or empty)
UserInfo(ok, real_name, display_name, name) ==
    [ok |-> ok, real_name |-> real_name, display_name |-> display_name, name |-> name]

\* the answer of bots.info for one bot: the lookup fails, or it returns the
\* bot's user ID
BotInfo(ok, user_id) == [ok |-> ok, user_id |-> user_id]

\* the platform as one call finds it
\*   channels_ok, history_ok, auth_ok  FALSE: the API method raises SlackApiError
\*   history   the channel's messages, newest first
\*   users     the answer of users.info per user ID
\*   bots      the answer of bots.info per bot ID
\*   cached    self._bot_user_id, "" for None
SlackWorld(channels_ok, history_ok, history, users, bots, auth_ok, cached) ==
    [channels_ok |-> channels_ok, history_ok |-> history_ok, history |-> history,
     users |-> users, bots |-> bots, auth_ok |-> auth_ok, cached |-> cached]

SlackReturned(value) == [raised |-> "none", value |-> value]
SlackRaised(class) == [raised |-> class, value |-> <<>>]

\* the first of the strings that is not empty: a or b or c or d
FirstNonEmpty(a, b, c, d) ==
    IF a # "" THEN a ELSE IF b # "" THEN b ELSE IF c # "" THEN c ELSE d

\* get_user_name; the cache makes one lookup per user and call, so users
\* gives the answer of that one lookup
get_user_name(user_id, users) ==
    IF user_id = ""
    THEN "Unknown"
    ELSE IF user_id = "USLACKBOT"
    THEN "Slackbot"
    ELSE IF users[user_id].ok
    THEN FirstNonEmpty(users[user_id].real_name, users[user_id].display_name,
                       users[user_id].name, user_id)
    ELSE user_id

\* replace_user_mentions: every mention becomes "@" and the user's name
replace_user_mentions(text, users) ==
    IF ~text.present \/ text.tokens = <<>>
    THEN text
    ELSE Text([k \in 1..Len(text.tokens) |->
                IF text.tokens[k].kind = "mention"
                THEN AtName(get_user_name(text.tokens[k].v, users))
                ELSE text.tokens[k]])

\* the body of the loop of _enrich_messages_with_user_names
enrich_message(msg, users) ==
    LET named == IF msg.user # ""
                 THEN [msg EXCEPT !.user_name = get_user_name(msg.user, users),
                                  !.user = get_user_name(msg.user, users)]
                 ELSE msg
    IN  [named EXCEPT !.text = replace_user_mentions(msg.text, users)]

enrich_messages_with_user_names(msgs, users) ==
    [k \in 1..Len(msgs) |-> enrich_message(msgs[k], users)]

\* a sequence back to front: list(reversed(messages))
Reversed(msgs) == [k \in 1..Len(msgs) |-> msgs[Len(msgs) - k + 1]]

\* messages[:limit] for limit >= 0
Prefix(msgs, limit) == SubSeq(msgs, 1, IF limit < Len(msgs) THEN limit ELSE Len(msgs))

\* lines 105-107 the other way round: reversed first, then cut to limit
select_messages_reverse_first(msgs, limit) == Prefix(Reversed(msgs), limit)

\* lines 105-107: the first limit messages of the history, reversed
select_messages(msgs, limit) == Reversed(Prefix(msgs, limit))

\* channel_name_or_id.startswith(('C', 'D', 'G'))
IsChannelId(channel) == channel \in {"C1", "C2", "C3", "D1"}

\* the channel ID for a name: the conversations.list request fails, or the
\* name is found ("" when it is not)
find_channel_id(channel, world) ==
    IF IsChannelId(channel)
    THEN [failed |-> FALSE, id |-> channel]
    ELSE IF ~world.channels_ok
    THEN [failed |-> TRUE, id |-> ""]
    ELSE IF channel = "general"
    THEN [failed |-> FALSE, id |-> "C1"]
    ELSE [failed |-> FALSE, id |-> ""]

\* get_channel_messages: SlackApiError becomes Exception, an unknown name is
\* a ValueError
get_channel_messages(channel, limit, world) ==
    LET found == find_channel_id(channel, world)
    IN  IF found.failed
        THEN SlackRaised("Exception")
        ELSE IF found.id = ""
        THEN SlackRaised("ValueError")
        ELSE IF ~world.history_ok
        THEN SlackRaised("Exception")
        ELSE SlackReturned(
                enrich_messages_with_user_names(
                    select_messages(world.history, limit), world.users))

\* the test of get_last_bot_message without the bots.info lookup
is_bot_message_no_lookup(msg, bot_user_id, bots) ==
    msg.user = bot_user_id \/ msg.bot_id # ""

\* the test of get_last_bot_message on one message: the user is the bot's
\* user ID or there is a bot_id; with a bot_id the bots.info lookup must
\* succeed and give the bot's user ID
is_bot_message(msg, bot_user_id, bots) ==
    /\ msg.user = bot_user_id \/ msg.bot_id # ""
    /\ msg.bot_id # "" => (bots[msg.bot_id].ok /\ bots[msg.bot_id].user_id = bot_user_id)

\* the first message of the history that passes the test, None (<<>>) when
\* there is none
RECURSIVE first_bot_message(_, _, _, _)
first_bot_message(msgs, k, bot_user_id, bots) ==
    IF k > Len(msgs)
    THEN <<>>
    ELSE IF is_bot_message(msgs[k], bot_user_id, bots)
    THEN <<msgs[k]>>
    ELSE first_bot_message(msgs, k + 1, bot_user_id, bots)

\* get_bot_user_id: the cached ID, else auth.test ("" when it raises)
get_bot_user_id(world) ==
    IF world.cached # ""
    THEN world.cached
    ELSE IF world.auth_ok THEN "UBOT" ELSE ""

\* get_last_bot_message: every exception becomes None
get_last_bot_message(channel, world) ==
    LET bot_user_id == get_bot_user_id(world)
        found == find_channel_id(channel, world)
    IN  IF bot_user_id = "" \/ found.failed \/ found.id = "" \/ ~world.history_ok
        THEN SlackReturned(<<>>)
        ELSE SlackReturned(first_bot_message(world.history, 1, bot_user_id, world.bots))

(***************************************************************************)
(* api/app.py: get_services                                                *)
(***************************************************************************)
\* an object and the get_services call that constructed it; call 0 and
\* NoClient stand for None
Object(made_in, value) == [made_in |-> made_in, value |-> value]
NoObject == Object(0, NoClient)

\* the module's globals; todo_extractor holds the client it was given,
\* slack_service its token
Globals(llm, extractor, slack) ==
    [llm_client |-> llm, todo_extractor |-> extractor, slack_service |-> slack]
NoExtractor == [made_in |-> 0, llm_client |-> NoObject]
NoSlackService == [made_in |-> 0, token |-> None]

\* the environment of one call: LLM_PROVIDER, the API keys, the installed
\* libraries and SLACK_BOT_TOKEN
ServiceEnv(provider, keys, libraries, token) ==
    [LLM_PROVIDER |-> provider, keys |-> keys, libraries |-> libraries,
     SLACK_BOT_TOKEN |-> token]

\* what one call did: the constructors it ran, the exception it raised and the
\* globals it left
ServiceCall(attempted, raised, globals) ==
    [attempted |-> attempted, raised |-> raised, globals |-> globals]

\* SlackService.__init__: the token from the environment, ValueError without
SlackService_init(env) ==
    IF NonEmpty(Or(None, GetEnv(env.SLACK_BOT_TOKEN)))
    THEN [raised |-> NoExc, token |-> GetEnv(env.SLACK_BOT_TOKEN)]
    ELSE [raised |-> Exc("ValueError", <<"SLACK_BOT_TOKEN not found. Set it in environment variables or pass as argument.">>),
          token |-> None]

\* lines 38-43: the client and the extractor around it, when there is no client
get_services_llm(globals, env, call) ==
    IF globals.llm_client # NoObject
    THEN ServiceCall(<<>>, NoExc, globals)
    ELSE LET made == create_llm_client(GetDefault(env.LLM_PROVIDER, Str("openai")).v,
                                       None, env.keys, env.libraries)
         IN  IF made.raised # NoExc
             THEN ServiceCall(<<"llm">>, made.raised, globals)
             ELSE ServiceCall(<<"llm">>, NoExc,
                    [globals EXCEPT
                        !.llm_client = Object(call, made.client),
                        !.todo_extractor =
                            [made_in |-> call, llm_client |-> Object(call, made.client)]])

\* get_services constructing the Slack service on every call
get_services_slack_every_call(globals, env, call) ==
    LET first == get_services_llm(globals, env, call)
        made == SlackService_init(env)
    IN  IF first.raised # NoExc
        THEN first
        ELSE IF made.raised # NoExc
        THEN ServiceCall(first.attempted \o <<"slack">>, made.raised, first.globals)
        ELSE ServiceCall(first.attempted \o <<"slack">>, NoExc,
                [first.globals EXCEPT
                    !.slack_service = [made_in |-> call, token |-> made.token]])

\* get_services: lines 38-43, then lines 45-48 when there is no Slack service;
\* an exception of a constructor leaves the function before the assignment
get_services(globals, env, call) ==
    LET first == get_services_llm(globals, env, call)
        made == SlackService_init(env)
    IN  IF first.raised # NoExc
        THEN first
        ELSE IF first.globals.slack_service # NoSlackService
        THEN first
        ELSE IF made.raised # NoExc
        THEN ServiceCall(first.attempted \o <<"slack">>, made.raised, first.globals)
        ELSE ServiceCall(first.attempted \o <<"slack">>, NoExc,
                [first.globals EXCEPT
                    !.slack_service = [made_in |-> call, token |-> made.token]])

(***************************************************************************)
(* api/app.py: POST /extract-todos                                         *)
(***************************************************************************)
\* an int or None
IntValue(n) == [t |-> "int", n |-> n]
NoneValue == [t |-> "null", n |-> 0]

\* the request body; channel_ids <<>> stands for None and for []
ExtractTodosRequest(minutes_ago, message_limit, post_to_slack, channel_ids) ==
    [minutes_ago |-> minutes_ago, message_limit |-> message_limit,
     post_to_slack |-> post_to_slack, channel_ids |-> channel_ids]

\* a channel of conversations.list; name "" stands for a missing name
Channel(id, name, is_member) == [id |-> id, name |-> name, is_member |-> is_member]

\* how the services behave for one channel: get_channel_messages raises or
\* returns count messages, extract_todos returns todos, post_message raises
\* or succeeds
Behaviour(fetch_raises, count, todos, post_raises) ==
    [fetch_raises |-> fetch_raises, count |-> count, todos |-> todos,
     post_raises |-> post_raises]

\* the platform: conversations.list raises or returns channels
Platform(list_ok, channels, behaviour) ==
    [list_ok |-> list_ok, channels |-> channels, behaviour |-> behaviour]

ChannelResult(channel_id, channel_name, todos, total_messages, todos_found) ==
    [channel_id |-> channel_id, channel_name |-> channel_name, todos |-> todos,
     total_messages |-> total_messages, todos_found |-> todos_found]

\* the response: status 200 with its body, or an HTTP error
ExtractTodosResponse(channels, processed, todos_found, messages_processed, minutes) ==
    [status |-> 200, channels |-> channels, total_channels_processed |-> processed,
     total_todos_found |-> todos_found, total_messages_processed |-> messages_processed,
     time_window_minutes |-> minutes]
HTTPException(status) ==
    [status |-> status, channels |-> <<>>, total_channels_processed |-> 0,
     total_todos_found |-> 0, total_messages_processed |-> 0,
     time_window_minutes |-> NoneValue]

\* the channel post_message posts to: the ID itself, or the ID of the first
\* channel with the name
post_message_channel(identifier, platform) ==
    IF IsChannelId(identifier)
    THEN identifier
    ELSE LET named == {k \in 1..Len(platform.channels) :
                        platform.channels[k].name = identifier}
         IN  IF named = {}
             THEN ""
             ELSE platform.channels[CHOOSE k \in named : \A l \in named : k <= l].id

\* one call made by the handler: "list", "fetch", "extract" or "post", the
\* channel it is made for and whether it succeeds
Effect(op, channel, ok) == [op |-> op, channel |-> channel, ok |-> ok]

\* _post_todos_to_slack: post_message raises ValueError before any request
\* when no channel has the name; the request itself can fail
post_todos_to_slack(identifier, platform, does, effects) ==
    IF post_message_channel(identifier, platform) = ""
    THEN effects
    ELSE Append(effects,
                Effect("post", post_message_channel(identifier, platform),
                       ~does.post_raises))

\* SlackService.list_channels: the channels the bot is a member of
list_channels(platform) ==
    LET IsMember(channel) == channel.is_member
    IN  SelectSeq(platform.channels, IsMember)

\* Todo(description=..., assigned_to=...) accepts a string description only
TodoValid(todo) == todo.description.t = "str" /\ todo.assigned_to.t \in {"str", "null"}

\* the state of the loop over the channels
Loop(results, total_todos, total_messages, effects) ==
    [results |-> results, total_todos |-> total_todos,
     total_messages |-> total_messages, effects |-> effects]

\* the loop body with the posting outside the test for todos
process_channel_post_always(channel, request, platform, loop) ==
    LET does == platform.behaviour[channel.id]
        identifier == IF channel.name # "" THEN channel.name ELSE channel.id
        failed == ChannelResult(channel.id, channel.name, <<>>, 0, 0)
        fetched == Append(loop.effects, Effect("fetch", channel.id, ~does.fetch_raises))
        extracted == Append(fetched, Effect("extract", channel.id, TRUE))
    IN  CASE does.fetch_raises ->
                [loop EXCEPT !.results = Append(@, failed), !.effects = fetched]
          [] does.count = 0 ->
                [loop EXCEPT !.results = Append(@, failed), !.effects = fetched]
          [] \E k \in 1..Len(does.todos) : ~TodoValid(does.todos[k]) ->
                [loop EXCEPT !.results = Append(@, failed),
                             !.total_messages = @ + does.count,
                             !.effects = extracted]
          [] OTHER ->
                Loop(Append(loop.results,
                            ChannelResult(channel.id, channel.name, does.todos,
                                          does.count, Len(does.todos))),
                     loop.total_todos + Len(does.todos),
                     loop.total_messages + does.count,
                     IF request.post_to_slack
                     THEN post_todos_to_slack(identifier, platform, does, extracted)
                     ELSE extracted)

\* the body of the loop over the channels, lines 300-372
process_channel(channel, request, platform, loop) ==
    LET does == platform.behaviour[channel.id]
        identifier == IF channel.name # "" THEN channel.name ELSE channel.id
        failed == ChannelResult(channel.id, channel.name, <<>>, 0, 0)
        fetched == Append(loop.effects, Effect("fetch", channel.id, ~does.fetch_raises))
        extracted == Append(fetched, Effect("extract", channel.id, TRUE))
    IN  CASE does.fetch_raises ->
                [loop EXCEPT !.results = Append(@, failed), !.effects = fetched]
          [] does.count = 0 ->
                [loop EXCEPT !.results = Append(@, failed), !.effects = fetched]
          [] \E k \in 1..Len(does.todos) : ~TodoValid(does.todos[k]) ->
                [loop EXCEPT !.results = Append(@, failed),
                             !.total_messages = @ + does.count,
                             !.effects = extracted]
          [] OTHER ->
                Loop(Append(loop.results,
                            ChannelResult(channel.id, channel.name, does.todos,
                                          does.count, Len(does.todos))),
                     loop.total_todos + Len(does.todos),
                     loop.total_messages + does.count,
                     IF does.todos # <<>> /\ request.post_to_slack
                     THEN post_todos_to_slack(identifier, platform, does, extracted)
                     ELSE extracted)

RECURSIVE process_channels(_, _, _, _, _)
process_channels(channels, k, request, platform, loop) ==
    IF k > Len(channels)
    THEN loop
    ELSE process_channels(channels, k + 1, request, platform,
                          process_channel(channels[k], request, platform, loop))

\* the handler without the filter on the requested channel IDs
select_channels_unfiltered(request, platform) == list_channels(platform)

\* lines 263-273: the member channels, those of channel_ids when it is given
select_channels(request, platform) ==
    LET Requested(channel) ==
            \E k \in 1..Len(request.channel_ids) : request.channel_ids[k] = channel.id
    IN  IF request.channel_ids # <<>>
        THEN SelectSeq(list_channels(platform), Requested)
        ELSE list_channels(platform)

\* the response model requires an int time_window_minutes: building the
\* response with None raises, which the handler reports as status 500
respond(results, processed, todos_found, messages_processed, minutes) ==
    IF minutes.t = "int"
    THEN ExtractTodosResponse(results, processed, todos_found, messages_processed, minutes)
    ELSE HTTPException(500)

\* the handler of POST /extract-todos: the response and the calls it made
extract_todos_from_slack(request, platform) ==
    LET channels == select_channels(request, platform)
        listed == <<Effect("list", "", platform.list_ok)>>
        done == process_channels(channels, 1, request, platform, Loop(<<>>, 0, 0, listed))
    IN  CASE ~platform.list_ok ->
                [response |-> HTTPException(500), effects |-> listed]
          [] request.channel_ids # <<>> /\ channels = <<>> ->
                [response |-> HTTPException(404), effects |-> listed]
          [] channels = <<>> ->
                [response |-> respond(<<>>, 0, 0, 0, request.minutes_ago),
                 effects |-> listed]
          [] OTHER ->
                [response |-> respond(done.results, Len(channels), done.total_todos,
                                      done.total_messages, request.minutes_ago),
                 effects |-> done.effects]

(***************************************************************************)
(* Inputs.                                                                 *)
(***************************************************************************)
Msg1 == Message(Str("Alice"), Str("U1"), Str("ship X"), Str("1.0"), Str("t1"))
Msg2 == Message(Absent, Str("Bob"), Str(""), Str("2.0"), Absent)
MessageSet == {Msg1, Msg2}

MessageLists == UNION {[1..n -> MessageSet] : n \in 0..MaxMessages}

BotMessage1 == Message(Absent, Absent, Str("Todos: ship X"), Str("0.5"), Str("t0"))
BotMessages == {NoBotMessage, BotMessage1}

\* tool calls that carry no todos array of their own
PlainCalls ==
    { NonDictCall, NoFunctionCall,
      ToolCall("null", Absent, ArgsAbsent),
      ToolCall("dict", Absent, ArgsObj(Todos("list", <<DictEntry(Str("a"), Absent)>>))),
      OtherCall(ArgsBadJson),
      OtherCall(ArgsObj(Todos("list", <<DictEntry(Str("a"), Absent)>>))),
      ExtractCall(ArgsAbsent),
      ExtractCall(Arguments("nonstr", TodosAbsent)),
      ExtractCall(ArgsBadJson),
      ExtractCall(Arguments("nonobj", TodosAbsent)) }
    \cup {ExtractCall(ArgsObj(todos)) : todos \in NonListTodos}

\* the tool calls of size n: a call whose todos is a list of n entries, and
\* for n = 1 also the calls that carry no list
CallsWith(n) ==
    {ExtractCall(ArgsObj(Todos("list", items))) : items \in [1..n -> Entries]}
    \cup (IF n = 1 THEN PlainCalls ELSE {})

\* the sequences of at most k tool calls of total size at most e
RECURSIVE ToolCallSeqs(_, _)
ToolCallSeqs(k, e) ==
    {<<>>} \cup
    IF k = 0
    THEN {}
    ELSE UNION { {<<tool_call>> \o rest :
                    tool_call \in CallsWith(n), rest \in ToolCallSeqs(k - 1, e - n)}
                 : n \in 0..e }

\* responses whose tool_calls is a list
ListResponses == {Response(TRUE, "list", items) : items \in ToolCallSeqs(MaxCalls, MaxTodos)}

\* every shape of response the decoder can be handed
ResponseValues ==
    ListResponses \cup
    { Response(FALSE, "absent", <<>>),
      Response(TRUE, "absent", <<>>),
      Response(TRUE, "null", <<>>),
      Response(TRUE, "num", <<>>),
      Response(TRUE, "str", <<NonDictCall>>) }

\* the Gateway's behaviours: the call fails, or it returns a response
Gateways ==
    {Gateway(TRUE, NoResponse)} \cup {Gateway(FALSE, resp) : resp \in ListResponses}

\* the arguments and environment of create_llm_client
Providers == {"openai", "OpenAI", "groq", "anthropic"}
ApiKeys == {None, Str(""), Str("sk-arg")}
Environments ==
    [OPENAI_API_KEY : {Absent, Str("sk-openai")}, GROQ_API_KEY : {Absent, Str("sk-groq")}]
Libraries == {{"openai", "groq"}, {"groq"}}
Config(provider, api_key, env, libraries) ==
    [provider |-> provider, api_key |-> api_key, env |-> env, libraries |-> libraries]
NoConfig == Config("", None, [OPENAI_API_KEY |-> Absent, GROQ_API_KEY |-> Absent], {})

\* the arguments of a generate_with_tools call
ClientCalls ==
    { ClientCallArgs(prompt, get_todo_extraction_function_schema,
                     sampling[1], sampling[2], kwargs) :
        prompt \in { get_todo_extraction_prompt(<<Msg1>>, NoBotMessage),
                     get_todo_extraction_prompt(<<Msg2>>, BotMessage1) },
        sampling \in { <<"0.3", 2000>>, <<"0.7", 500>> },
        kwargs \in { Kwargs(Absent, Absent), Kwargs(Absent, Str("0.9")),
                     Kwargs(Str("required"), Absent) } }
NoClientCall == ClientCallArgs("", <<>>, "", 0, Kwargs(Absent, Absent))

\* the backend's answers
BackendToolCalls ==
    { BackendToolCall("function", "call_1", "extract_todos", "{\"todos\": []}"),
      BackendToolCall("function", "call_2", "other_tool", "{not json"),
      BackendToolCall("custom", "call_3", "extract_todos", "{}") }
BackendContents ==
    { [t |-> "null", chars |-> <<>>], [t |-> "str", chars |-> <<>>],
      [t |-> "str", chars |-> <<" ", "o", "k", " ">>], [t |-> "str", chars |-> <<" ">>] }
BackendToolCallLists ==
    {[t |-> "null", items |-> <<>>]} \cup
    {[t |-> "list", items |-> items] :
        items \in UNION {[1..n -> BackendToolCalls] : n \in 0..MaxCalls}}
Backends ==
    { BackendError("RateLimitError", "rate limit exceeded"),
      BackendError("AuthenticationError", "invalid api key"),
      BackendNoChoices }
    \cup {BackendReply(content, tool_calls) :
            content \in BackendContents, tool_calls \in BackendToolCallLists}

\* the transcripts handed to the prompt builder
Transcripts == UNION {[1..n -> MessageSet] : n \in 0..MaxTranscript}

\* no schema object was handed out yet
NoSchema == <<>>

\* what the holder of a schema object can make of it: the function renamed,
\* a second function appended
ChangedSchemas ==
    { <<[extract_todos_schema[1] EXCEPT !.name = "renamed"]>>,
      Append(extract_todos_schema,
             [extract_todos_schema[1] EXCEPT !.name = "appended"]) }

\* the invocations that run interleaved
Invocations == {"a", "b"}

IdleFrame ==
    Frame("idle", <<>>, NoBotMessage, get_todo_extraction_prompt(<<>>, NoBotMessage),
          <<>>, NoResponse, Returned(<<>>))

\* the Gateway's behaviours towards interleaved invocations
ConcurrentGateways ==
    { Gateway(TRUE, NoResponse),
      Gateway(FALSE, Response(TRUE, "list",
                <<ExtractCall(ArgsObj(Todos("list", <<DictEntry(Str("a"), Absent)>>)))>>)),
      Gateway(FALSE, Response(TRUE, "list",
                <<ExtractCall(ArgsObj(Todos("list", <<DictEntry(Str("b"), Str("Ana"))>>)))>>)) }

\* the platform's users, bots and channels
LookupIds == {"U1", "U2", "UBOT"}
UserInfos ==
    { UserInfo(FALSE, "", "", ""),
      UserInfo(TRUE, "Alice", "", "alice"),
      UserInfo(TRUE, "", "", "") }
DefaultUsers == [user_id \in LookupIds |-> UserInfo(TRUE, "Todo Bot", "", "todo-bot")]
UserDirectories ==
    { [user_id \in LookupIds |->
          IF user_id = "UBOT" THEN DefaultUsers[user_id] ELSE people[user_id]] :
        people \in [LookupIds \ {"UBOT"} -> UserInfos] }
BotIds == {"B1", "B2"}
BotInfos == {BotInfo(FALSE, ""), BotInfo(TRUE, "UBOT"), BotInfo(TRUE, "UOTHER")}
DefaultBots == [bot_id \in BotIds |-> BotInfo(TRUE, "UBOT")]
BotDirectories == [BotIds -> BotInfos]
ChannelArgs == {"C1", "general", "nowhere"}

\* what a platform message holds besides its timestamp
MessageBodies ==
    { [user |-> "U1", bot_id |-> "", text |-> Text(<<Word("ship"), Mention("U2")>>)],
      [user |-> "U2", bot_id |-> "", text |-> Text(<<Mention("U1")>>)],
      [user |-> "", bot_id |-> "B1", text |-> Text(<<Word("done")>>)],
      [user |-> "UBOT", bot_id |-> "", text |-> Text(<<Word("todos")>>)],
      [user |-> "UBOT", bot_id |-> "B2", text |-> Text(<<>>)],
      [user |-> "USLACKBOT", bot_id |-> "", text |-> NoText] }

\* the histories the platform returns: newest first, the timestamps falling
Histories ==
    UNION { { [k \in 1..n |->
                SlackMessage(body[k].user, "", body[k].bot_id, body[k].text, n - k + 1)] :
              body \in [1..n -> MessageBodies] } : n \in 0..MaxHistory }

Limits == 0..(MaxHistory + 1)

\* the platform when a method raises: nothing else of it is seen
FailingWorlds ==
    { SlackWorld(channels_ok, history_ok, <<>>, DefaultUsers, DefaultBots, auth_ok, "") :
        channels_ok \in BOOLEAN, history_ok \in BOOLEAN, auth_ok \in BOOLEAN }

\* the platform as get_channel_messages can find it
FetchWorlds ==
    FailingWorlds \cup
    { SlackWorld(TRUE, TRUE, history, users, DefaultBots, TRUE, "") :
        history \in Histories, users \in UserDirectories }

\* the platform as get_last_bot_message can find it
LookWorlds ==
    FailingWorlds \cup
    { SlackWorld(TRUE, TRUE, history, DefaultUsers, bots, auth[1], auth[2]) :
        history \in Histories, bots \in BotDirectories,
        auth \in {<<TRUE, "">>, <<FALSE, "UBOT">>, <<FALSE, "">>} }

SlackCall(method, channel, limit) ==
    [method |-> method, channel |-> channel, limit |-> limit]

\* the environments of get_services
ServiceEnvs ==
    { ServiceEnv(provider, keys, libraries, token) :
        provider \in {Absent, Str("groq"), Str("OpenAI"), Str("anthropic")},
        keys \in Environments,
        libraries \in Libraries,
        token \in {Absent, Str("xoxb-1")} }

\* the channels the platform can have, in the order of conversations.list
ChannelSlots ==
    << [id |-> "C1", name |-> "general"], [id |-> "C3", name |-> ""],
       [id |-> "C2", name |-> "random"], [id |-> "D1", name |-> "team"] >>
ChannelIds == {ChannelSlots[k].id : k \in 1..MaxChannels}

\* every channel is missing, or there with or without the bot as a member
RECURSIVE ChannelLists(_)
ChannelLists(k) ==
    IF k = 0
    THEN {<<>>}
    ELSE UNION { {rest, Append(rest, Channel(ChannelSlots[k].id, ChannelSlots[k].name, TRUE)),
                  Append(rest, Channel(ChannelSlots[k].id, ChannelSlots[k].name, FALSE))} :
                 rest \in ChannelLists(k - 1) }

\* the records extract_todos returns
TodoA == [description |-> Str("a"), assigned_to |-> None]
TodoB == [description |-> Str("b"), assigned_to |-> Str("Ana")]
TodoNull == [description |-> None, assigned_to |-> None]

Behaviours ==
    { Behaviour(TRUE, 0, <<>>, FALSE),
      Behaviour(FALSE, 0, <<>>, FALSE),
      Behaviour(FALSE, 1, <<>>, FALSE),
      Behaviour(FALSE, 2, <<TodoA>>, FALSE),
      Behaviour(FALSE, 2, <<TodoA, TodoB>>, TRUE),
      Behaviour(FALSE, 1, <<TodoA, TodoNull>>, FALSE) }

Platforms ==
    { Platform(FALSE, <<>>, [id \in ChannelIds |-> Behaviour(TRUE, 0, <<>>, FALSE)]) }
    \cup { Platform(TRUE, channels, behaviour) :
             channels \in ChannelLists(MaxChannels), behaviour \in [ChannelIds -> Behaviours] }

ExtractTodosRequests ==
    { ExtractTodosRequest(minutes_ago, 100, post_to_slack, channel_ids) :
        minutes_ago \in {IntValue(30), NoneValue},
        post_to_slack \in BOOLEAN,
        channel_ids \in {<<>>, <<"C1">>, <<"C3", "C1">>, <<"C9">>} }

(***************************************************************************)
(* The state machines.  Spec: one call of extract_todos, or one call of    *)
(* _parse_tool_calls.  SpecClient: create_llm_client, then one call of     *)
(* generate_with_tools on the client it returned.                          *)
(***************************************************************************)
Init ==
    /\ pc = "idle"
    /\ messages = <<>>
    /\ last_bot_message = NoBotMessage
    /\ response = NoResponse
    /\ gateway_log = <<>>
    /\ gateway_error = "none"
    /\ result = Returned(<<>>)
    /\ client_pc = "new"
    /\ config = NoConfig
    /\ created_client = NoClient
    /\ backend = BackendNoChoices
    /\ backend_requests = <<>>
    /\ client_call = NoClientCall
    /\ client_result = ClientReturned(NoResult)
    /\ prompt_calls = <<>>
    /\ handed_schema = NoSchema
    /\ frames = [self \in Invocations |-> IdleFrame]
    /\ transport = <<>>
    /\ replies = <<>>
    /\ slack_pc = "idle"
    /\ slack_world = SlackWorld(TRUE, TRUE, <<>>, DefaultUsers, DefaultBots, TRUE, "")
    /\ slack_call = SlackCall("", "", 0)
    /\ slack_result = SlackReturned(<<>>)
    /\ service_globals = Globals(NoObject, NoExtractor, NoSlackService)
    /\ service_log = <<>>
    /\ api_pc = "idle"
    /\ api_request = ExtractTodosRequest(IntValue(0), 0, FALSE, <<>>)
    /\ api_platform = Platform(TRUE, <<>>, [id \in ChannelIds |-> Behaviour(FALSE, 0, <<>>, FALSE)])
    /\ api_response = HTTPException(0)
    /\ api_effects = <<>>

ExtractTodos ==
    /\ pc = "idle"
    /\ \E msgs \in MessageLists, bot_message \in BotMessages, llm_client \in Gateways :
          LET done == extract_todos(msgs, bot_message, llm_client)
          IN  /\ pc' = "extracted"
              /\ messages' = msgs
              /\ last_bot_message' = bot_message
              /\ response' = done.response
              /\ gateway_log' = gateway_log \o done.calls
              /\ gateway_error' = done.error
              /\ result' = done.outcome
    /\ UNCHANGED <<client_vars, prompt_vars, concurrent_vars, slack_vars, service_vars, api_vars>>

ParseToolCalls ==
    /\ pc = "idle"
    /\ \E resp \in ResponseValues :
          /\ pc' = "parsed"
          /\ response' = resp
          /\ result' = parse_tool_calls(resp)
    /\ UNCHANGED <<messages, last_bot_message, gateway_log, gateway_error>>
    /\ UNCHANGED <<client_vars, prompt_vars, concurrent_vars, slack_vars, service_vars, api_vars>>

Next == ExtractTodos \/ ParseToolCalls

Spec == Init /\ [][Next]_vars

CreateClient ==
    /\ client_pc = "new"
    /\ \E provider \in Providers, api_key \in ApiKeys, env \in Environments,
          libraries \in Libraries :
          LET made == create_llm_client(provider, api_key, env, libraries)
          IN  /\ config' = Config(provider, api_key, env, libraries)
              /\ created_client' = made.client
              /\ client_result' = ClientRaised(made.raised)
              /\ client_pc' = IF made.raised = NoExc THEN "ready" ELSE "failed"
    /\ UNCHANGED <<backend, backend_requests, client_call>>
    /\ UNCHANGED <<extractor_vars, prompt_vars, concurrent_vars, slack_vars, service_vars, api_vars>>

GenerateWithTools ==
    /\ client_pc = "ready"
    /\ \E call \in ClientCalls, how \in Backends :
          LET done == generate_with_tools(created_client, call, how)
          IN  /\ client_call' = call
              /\ backend' = how
              /\ backend_requests' = backend_requests \o done.requests
              /\ client_result' = done.outcome
    /\ client_pc' = "called"
    /\ UNCHANGED <<config, created_client>>
    /\ UNCHANGED <<extractor_vars, prompt_vars, concurrent_vars, slack_vars, service_vars, api_vars>>

ClientNext == CreateClient \/ GenerateWithTools

\* lines 53 and 63 of extract_todos: the prompt and the tool schema of one
\* extraction
BuildPromptAndTools ==
    /\ Len(prompt_calls) < MaxPromptCalls
    /\ \E msgs \in Transcripts, bot_message \in BotMessages :
          LET built == prompt_call(msgs, bot_message)
              tools == get_todo_extraction_function_schema
          IN  /\ prompt_calls' = Append(prompt_calls,
                    [messages |-> msgs,
                     last_bot_message |-> bot_message,
                     prompt |-> built.prompt,
                     messages_after |-> built.messages,
                     last_bot_message_after |-> built.last_bot_message,
                     tools |-> tools,
                     earlier_schema_changed |-> handed_schema \in ChangedSchemas])
              /\ handed_schema' = tools
    /\ UNCHANGED <<extractor_vars, client_vars, concurrent_vars, slack_vars, service_vars, api_vars>>

\* the holder of the schema object of the latest extraction changes it
ChangeHandedSchema ==
    /\ handed_schema = extract_todos_schema
    /\ \E changed \in ChangedSchemas : handed_schema' = changed
    /\ UNCHANGED prompt_calls
    /\ UNCHANGED <<extractor_vars, client_vars, concurrent_vars, slack_vars, service_vars, api_vars>>

PromptNext == BuildPromptAndTools \/ ChangeHandedSchema

SpecPrompt == Init /\ [][PromptNext]_vars

\* an invocation starts: lines 38-63 of extract_todos
Enter(self) ==
    /\ frames[self].pc = "idle"
    /\ \E msgs \in MessageLists, bot_message \in BotMessages :
          frames' = [frames EXCEPT ![self] = extract_todos_enter(msgs, bot_message)]
    /\ UNCHANGED <<transport, replies>>
    /\ UNCHANGED <<extractor_vars, client_vars, prompt_vars, slack_vars, service_vars, api_vars>>

\* lines 66-72 of extract_todos, lines 110-121 of generate_with_tools: the
\* request leaves through the shared client
Request(self) ==
    /\ frames[self].pc = "entered"
    /\ frames' = [frames EXCEPT ![self].pc = "calling"]
    /\ transport' = Append(transport,
            [by |-> self,
             call |-> generate_with_tools_call(frames[self].prompt, frames[self].tools)])
    /\ UNCHANGED replies
    /\ UNCHANGED <<extractor_vars, client_vars, prompt_vars, slack_vars, service_vars, api_vars>>

\* the backend answers the request of one invocation, or fails it
Reply(self) ==
    /\ frames[self].pc = "calling"
    /\ frames' = [frames EXCEPT ![self].pc = "replied"]
    /\ \E gateway \in ConcurrentGateways :
          replies' = Append(replies, [to |-> self, gateway |-> gateway])
    /\ UNCHANGED transport
    /\ UNCHANGED <<extractor_vars, client_vars, prompt_vars, slack_vars, service_vars, api_vars>>

\* the call returns or raises, the response is decoded: lines 72-100
Return(self) ==
    /\ frames[self].pc = "replied"
    /\ LET done == extract_todos_try(
                        received(self, replies),
                        generate_with_tools_call(frames[self].prompt, frames[self].tools))
       IN  frames' = [frames EXCEPT ![self].pc = "done",
                                    ![self].response = done.response,
                                    ![self].result = done.outcome]
    /\ UNCHANGED <<transport, replies>>
    /\ UNCHANGED <<extractor_vars, client_vars, prompt_vars, slack_vars, service_vars, api_vars>>

ConcurrentNext ==
    \E self \in Invocations : Enter(self) \/ Request(self) \/ Reply(self) \/ Return(self)

SpecConcurrent == Init /\ [][ConcurrentNext]_vars

GetChannelMessages ==
    /\ slack_pc = "idle"
    /\ \E channel \in ChannelArgs, limit \in Limits, world \in FetchWorlds :
          /\ slack_world' = world
          /\ slack_call' = SlackCall("get_channel_messages", channel, limit)
          /\ slack_result' = get_channel_messages(channel, limit, world)
    /\ slack_pc' = "fetched"
    /\ UNCHANGED <<extractor_vars, client_vars, prompt_vars, concurrent_vars, service_vars, api_vars>>

GetLastBotMessage ==
    /\ slack_pc = "idle"
    /\ \E channel \in ChannelArgs, world \in LookWorlds :
          /\ slack_world' = world
          /\ slack_call' = SlackCall("get_last_bot_message", channel, 0)
          /\ slack_result' = get_last_bot_message(channel, world)
    /\ slack_pc' = "looked"
    /\ UNCHANGED <<extractor_vars, client_vars, prompt_vars, concurrent_vars, service_vars, api_vars>>

SlackNext == GetChannelMessages \/ GetLastBotMessage

SpecSlack == Init /\ [][SlackNext]_vars

\* one call of get_services, in the environment of the moment
GetServices ==
    /\ Len(service_log) < MaxServiceCalls
    /\ \E env \in ServiceEnvs :
          LET done == get_services(service_globals, env, Len(service_log) + 1)
          IN  /\ service_globals' = done.globals
              /\ service_log' = Append(service_log, done)
    /\ UNCHANGED <<extractor_vars, client_vars, prompt_vars, concurrent_vars, slack_vars, api_vars>>

ServiceNext == GetServices

SpecServices == Init /\ [][ServiceNext]_vars

\* one POST /extract-todos request
ExtractTodosFromSlack ==
    /\ api_pc = "idle"
    /\ \E request \in ExtractTodosRequests, platform \in Platforms :
          LET done == extract_todos_from_slack(request, platform)
          IN  /\ api_request' = request
              /\ api_platform' = platform
              /\ api_response' = done.response
              /\ api_effects' = done.effects
    /\ api_pc' = "answered"
    /\ UNCHANGED <<extractor_vars, client_vars, prompt_vars, concurrent_vars, slack_vars,
                   service_vars>>

ApiNext == ExtractTodosFromSlack

SpecApi == Init /\ [][ApiNext]_vars

SpecClient == Init /\ [][ClientNext]_vars

(***************************************************************************)
(* Properties of extract_todos.                                            *)
(***************************************************************************)
\* an extraction has run on a non-empty message list
ExtractedNonEmpty == pc = "extracted" /\ messages # <<>>

\* the decoder has run on response: called directly, or by an extraction
\* whose Gateway call returned
DecoderRan ==
    \/ pc = "parsed"
    \/ ExtractedNonEmpty /\ gateway_error = "none"

\* C1: when the Gateway call of an extraction with non-empty messages raises,
\* extract_todos returns the empty list and no exception leaves it.
C1_GatewayFailureIsolated ==
    (ExtractedNonEmpty /\ gateway_error # "none") => result = Returned(<<>>)

C1_Witness ==
    /\ ExtractedNonEmpty
    /\ gateway_error = "Exception"
    /\ Len(gateway_log) = 1
    /\ result = Returned(<<>>)

\* C2: extract_todos on an empty message list returns the empty list and
\* makes no call to the Gateway, with or without a last bot message.
C2_EmptyMessagesNoGatewayCall ==
    (pc = "extracted" /\ messages = <<>>) =>
        /\ result = Returned(<<>>)
        /\ gateway_log = <<>>

C2_Witness ==
    /\ pc = "extracted"
    /\ messages = <<>>
    /\ last_bot_message # NoBotMessage
    /\ gateway_log = <<>>
    /\ result = Returned(<<>>)

\* The decoder of section 4.4 of the specification: the entries of the
\* extract_todos calls whose arguments parse to an object with a todos list,
\* in call order then array order, and of those the valid ones.
SchemaEntries(tool_call) ==
    IF /\ tool_call.isdict
       /\ tool_call.function = "dict"
       /\ tool_call.name = Str("extract_todos")
       /\ tool_call.arguments.t = "obj"
       /\ tool_call.arguments.todos.t = "list"
    THEN tool_call.arguments.todos.items
    ELSE <<>>

RECURSIVE Flatten(_)
Flatten(seqs) == IF seqs = <<>> THEN <<>> ELSE Head(seqs) \o Flatten(Tail(seqs))

ResponseEntries(resp) ==
    IF resp.isdict /\ resp.tool_calls.t = "list"
    THEN Flatten([i \in 1..Len(resp.tool_calls.items) |->
                    SchemaEntries(resp.tool_calls.items[i])])
    ELSE <<>>

ValidEntry(entry) ==
    /\ entry.isdict
    /\ entry.description.t = "str"
    /\ entry.description.v # ""

RecordOf(entry) ==
    [description |-> entry.description,
     assigned_to |-> IF entry.assigned_to = Absent THEN None ELSE entry.assigned_to]

ValidRecords(resp) ==
    LET valid == SelectSeq(ResponseEntries(resp), ValidEntry)
    IN  [i \in 1..Len(valid) |-> RecordOf(valid[i])]

\* C3: for non-empty messages and a Gateway call that returned, extract_todos
\* returns one record per valid entry of the response's tool calls, in call
\* order then array order.
C3_ReturnsValidEntries ==
    (ExtractedNonEmpty /\ gateway_error = "none") =>
        result = Returned(ValidRecords(response))

(***************************************************************************)
(* Properties of _parse_tool_calls.                                        *)
(***************************************************************************)
RemoveAt(seq, i) == SubSeq(seq, 1, i - 1) \o SubSeq(seq, i + 1, Len(seq))

CallIndexes == IF response.isdict /\ response.tool_calls.t = "list"
               THEN 1..Len(response.tool_calls.items)
               ELSE {}

\* response without its i-th tool call
WithoutCall(i) == Response(TRUE, "list", RemoveAt(response.tool_calls.items, i))

\* response without the j-th todos entry of its i-th tool call
WithoutEntry(i, j) ==
    LET tool_call == response.tool_calls.items[i]
        shorter == ExtractCall(ArgsObj(Todos("list",
                        RemoveAt(tool_call.arguments.todos.items, j))))
    IN  Response(TRUE, "list", [response.tool_calls.items EXCEPT ![i] = shorter])

\* the i-th tool call is skipped: the decoder returns, without raising, what
\* it returns for the response without that call
SkipsOnlyCall(i) == result = parse_tool_calls(WithoutCall(i))

UnparseableArguments(tool_call) ==
    /\ tool_call.isdict
    /\ tool_call.function = "dict"
    /\ tool_call.arguments.t = "badjson"

\* C4: a tool call whose arguments are not JSON is skipped alone: the records
\* of the calls before and after it are returned, in order, and nothing is
\* raised.
C4_UnparseableCallSkipped ==
    DecoderRan =>
        \A i \in CallIndexes :
            UnparseableArguments(response.tool_calls.items[i]) => SkipsOnlyCall(i)

C4_Witness ==
    /\ pc = "parsed"
    /\ Len(response.tool_calls.items) = 2
    /\ response.tool_calls.items[2] = ExtractCall(ArgsBadJson)
    /\ result = Returned(<<RecordOf(DictEntry(Str("a"), Absent))>>)

TodosNotASequence(tool_call) ==
    /\ tool_call.isdict
    /\ tool_call.function = "dict"
    /\ tool_call.name = Str("extract_todos")
    /\ tool_call.arguments.t = "obj"
    /\ tool_call.arguments.todos \in NonListTodos

\* C5: an extract_todos call whose todos field is absent or not a sequence
\* contributes no records, and the records of the other calls are returned.
C5_NonSequenceTodosSkipped ==
    DecoderRan =>
        \A i \in CallIndexes :
            TodosNotASequence(response.tool_calls.items[i]) => SkipsOnlyCall(i)

DecodeAnomaly(tool_call) ==
    /\ tool_call.isdict
    /\ \/ tool_call.function = "absent"
       \/ /\ tool_call.function = "dict"
          /\ tool_call.name = Str("extract_todos")
          /\ tool_call.arguments.t \in {"nonobj", "nonstr"}

\* C6: a tool call whose arguments are JSON but not an object, or are not a
\* string, or that has no function part, is skipped alone: the records of the
\* earlier and later calls are all returned.
C6_AnomalousCallSkipped ==
    DecoderRan =>
        \A i \in CallIndexes :
            DecodeAnomaly(response.tool_calls.items[i]) => SkipsOnlyCall(i)

\* C7: every returned record has a description that is a non-empty string.
C7_DescriptionsNonEmpty ==
    DecoderRan =>
        \A k \in 1..Len(result.value) :
            /\ result.value[k].description.t = "str"
            /\ result.value[k].description.v # ""

EntryIndexes(i) == 1..Len(SchemaEntries(response.tool_calls.items[i]))

SkippableEntry(entry) == ~entry.isdict \/ entry.description = Absent

\* C8: an entry that is not an object, or has no description field, yields no
\* record and the other entries of its array are processed as without it.
C8_BadEntrySkipped ==
    DecoderRan =>
        \A i \in CallIndexes : \A j \in EntryIndexes(i) :
            SkippableEntry(response.tool_calls.items[i].arguments.todos.items[j]) =>
                result = parse_tool_calls(WithoutEntry(i, j))

C8_Witness ==
    /\ pc = "parsed"
    /\ response = Response(TRUE, "list", <<ExtractCall(ArgsObj(Todos("list",
            <<NonDictEntry, DictEntry(Str("b"), Str("Ana"))>>)))>>)
    /\ result = Returned(<<RecordOf(DictEntry(Str("b"), Str("Ana")))>>)

\* the todos entries of every tool call of the response, whatever the call,
\* in call order then array order
AllEntries(resp) ==
    IF resp.isdict /\ resp.tool_calls.t = "list"
    THEN Flatten([i \in 1..Len(resp.tool_calls.items) |->
                    IF resp.tool_calls.items[i].arguments.todos.t = "list"
                    THEN resp.tool_calls.items[i].arguments.todos.items
                    ELSE <<>>])
    ELSE <<>>

\* records is Project of a subsequence of entries: each record is matched to
\* an entry of its own, and the matches keep the order
RECURSIVE MatchesInOrder(_, _)
MatchesInOrder(records, entries) ==
    CASE records = <<>> -> TRUE
      [] entries = <<>> -> FALSE
      [] OTHER ->
            \/ /\ Head(entries).isdict
               /\ Head(records) = RecordOf(Head(entries))
               /\ MatchesInOrder(Tail(records), Tail(entries))
            \/ MatchesInOrder(records, Tail(entries))

\* C9: every returned record is one entry of some tool call's todos array,
\* no entry is used twice, and the records are in call order then array order.
C9_RecordsMirrorEntries ==
    DecoderRan => MatchesInOrder(result.value, AllEntries(response))

C9_Witness ==
    /\ pc = "parsed"
    /\ Len(response.tool_calls.items) = 2
    /\ result = Returned(<<RecordOf(DictEntry(Str("a"), Absent)),
                           RecordOf(DictEntry(Str("b"), Str("Ana")))>>)

\* C10: _parse_tool_calls returns a list of records for every response value
\* and never raises.
C10_DecoderTotal ==
    pc = "parsed" =>
        /\ result.raised = "none"
        /\ \A k \in 1..Len(result.value) :
              result.value[k] \in [description : {Str("a"), Str("b"), Str(""), None},
                                   assigned_to : {Str("Ana"), Str("Lee"), Str("Sam"), None}]

C10_Witness ==
    /\ pc = "parsed"
    /\ parse_tool_calls_body(response).exc \in {"AttributeError", "TypeError"}
    /\ ~response.isdict
    /\ result = Returned(<<>>)

\* C11: when the decoder returns records, they are the accepted entries
\* (objects with a description field) in order, each with the entry's
\* description, and with the entry's assigned_to when that is present and not
\* null and None when it is missing or null.
AcceptedEntry(entry) == entry.isdict /\ entry.description # Absent

MappedRecord(entry) ==
    [description |-> entry.description,
     assigned_to |-> IF entry.assigned_to \in {Absent, None}
                     THEN None
                     ELSE entry.assigned_to]

C11_RecordFieldsMapped ==
    (DecoderRan /\ result.value # <<>>) =>
        LET accepted == SelectSeq(ResponseEntries(response), AcceptedEntry)
        IN  result.value = [k \in 1..Len(accepted) |-> MappedRecord(accepted[k])]

C11_Witness ==
    /\ pc = "parsed"
    /\ response = Response(TRUE, "list", <<ExtractCall(ArgsObj(Todos("list",
            <<DictEntry(Str("b"), None), DictEntry(Str("a"), Absent)>>)))>>)
    /\ result = Returned(<<[description |-> Str("b"), assigned_to |-> None],
                           [description |-> Str("a"), assigned_to |-> None]>>)

OtherFunctionName(tool_call) ==
    /\ tool_call.isdict
    /\ tool_call.function = "dict"
    /\ tool_call.name # Str("extract_todos")

\* C12: a tool call whose function name is not extract_todos is skipped
\* without error whatever its arguments: the decoder returns what it returns
\* for the response without that call.
C12_OtherFunctionSkipped ==
    DecoderRan =>
        \A i \in CallIndexes :
            OtherFunctionName(response.tool_calls.items[i]) => SkipsOnlyCall(i)

C12_Witness ==
    /\ pc = "parsed"
    /\ response = Response(TRUE, "list",
            <<OtherCall(ArgsObj(Todos("list", <<DictEntry(Str("a"), Absent)>>))),
              ExtractCall(ArgsObj(Todos("list", <<DictEntry(Str("b"), Str("Ana"))>>)))>>)
    /\ result = Returned(<<[description |-> Str("b"), assigned_to |-> Str("Ana")]>>)

\* C13: an extraction on a non-empty message list calls generate_with_tools
\* exactly once, whether the call returns or raises, with the prompt built
\* from its messages and last bot message, the extract_todos schema,
\* temperature 0.3 and max_tokens 2000.
C13_OneGatewayCall ==
    ExtractedNonEmpty =>
        gateway_log =
            << [method |-> "generate_with_tools",
                prompt |-> get_todo_extraction_prompt(messages, last_bot_message),
                tools |-> get_todo_extraction_function_schema,
                temperature |-> "0.3",
                max_tokens |-> 2000] >>

C13_Witness ==
    /\ ExtractedNonEmpty
    /\ last_bot_message # NoBotMessage
    /\ gateway_error = "none"
    /\ result.value # <<>>
    /\ Len(gateway_log) = 1
    /\ gateway_log[1].prompt.bot_message_text # <<>>

(***************************************************************************)
(* Properties of llm/client.py.                                            *)
(***************************************************************************)
ErrorPrefix ==
    IF created_client.class = "OpenAIClient"
    THEN "Error calling OpenAI API with tools: "
    ELSE "Error calling Groq API with tools: "

\* C14: a generate_with_tools call of either client sends at most one request
\* to the backend; when the request fails the call raises one Exception whose
\* message carries the backend's diagnostic message, and sends nothing more.
C14_OneRequestNoRetry ==
    client_pc = "called" =>
        /\ Len(backend_requests) <= 1
        /\ client_result.raised.class \in {"none", "Exception"}
        /\ (backend.kind = "error" /\ backend_requests # <<>>) =>
              client_result.raised = Exc("Exception", <<ErrorPrefix, backend.diagnostic>>)

C14_Witness ==
    /\ client_pc = "called"
    /\ created_client.class = "OpenAIClient"
    /\ backend = BackendError("RateLimitError", "rate limit exceeded")
    /\ Len(backend_requests) = 1
    /\ client_result.raised.message[2] = "rate limit exceeded"

\* C15: every request sent to the backend by generate_with_tools, of either
\* client and with any extra keyword arguments, has tool_choice "auto".
C15_ToolChoiceAuto ==
    \A k \in 1..Len(backend_requests) : backend_requests[k].tool_choice = "auto"

C15_Witness ==
    /\ client_pc = "called"
    /\ created_client.class = "GroqClient"
    /\ client_call.kwargs.top_p # Absent
    /\ Len(backend_requests) = 1
    /\ backend_requests[1].tool_choice = "auto"
    /\ client_result.raised = NoExc

UnknownProvider == Lower(config.provider) \notin {"openai", "groq"}

MissingCredential ==
    /\ ~NonEmpty(config.api_key)
    /\ \/ Lower(config.provider) = "openai" /\ ~NonEmpty(config.env.OPENAI_API_KEY)
       \/ Lower(config.provider) = "groq" /\ ~NonEmpty(config.env.GROQ_API_KEY)

\* C16: with an unknown provider or without the credential of the chosen
\* provider, create_llm_client raises (ValueError, or ImportError when the
\* provider's library is missing), returns no client and nothing is sent to
\* the backend; a client that was returned has a credential, and a call on
\* it raises nothing but the Exception of generate_with_tools.
C16_ConfigurationErrorAtConstruction ==
    client_pc # "new" =>
        /\ (UnknownProvider \/ MissingCredential) =>
              /\ client_pc = "failed"
              /\ created_client = NoClient
              /\ backend_requests = <<>>
              /\ client_result.raised.class \in {"ValueError", "ImportError"}
              /\ (UnknownProvider \/ Lower(config.provider) \in config.libraries) =>
                    client_result.raised.class = "ValueError"
        /\ client_pc \in {"ready", "called"} =>
              /\ created_client.class \in {"OpenAIClient", "GroqClient"}
              /\ NonEmpty(created_client.api_key)
        /\ client_pc = "called" =>
              client_result.raised.class \in {"none", "Exception"}

C16_Witness ==
    /\ client_pc = "failed"
    /\ config.provider = "OpenAI"
    /\ config.api_key = Str("")
    /\ config.env = [OPENAI_API_KEY |-> Absent, GROQ_API_KEY |-> Str("sk-groq")]
    /\ created_client = NoClient
    /\ client_result.raised.class = "ValueError"


(***************************************************************************)
(* The prompt builder and the tool schema.                                 *)
(***************************************************************************)

PromptCallIndexes == 1..Len(prompt_calls)

\* the line renders the message: its text as the body, its author taken from
\* the message's user_name or user, its timestamp from timestamp_readable or ts
RendersMessage(line, msg) ==
    /\ line.text = msg.text
    /\ line.user \in {msg.user_name, msg.user} \ {Absent}
    /\ line.timestamp \in {msg.timestamp_readable, msg.ts} \ {Absent}

\* C17: the transcript of every prompt has exactly one line per input
\* message, in input order, each "[timestamp] author: text" of its message;
\* a message with empty text is a line with an empty body, none is left out
\* or moved
C17_OneLinePerMessage ==
    \A k \in PromptCallIndexes :
        LET call == prompt_calls[k]
            lines == call.prompt.messages_text
        IN  /\ Len(lines) = Len(call.messages)
            /\ \A i \in 1..Len(lines) : RendersMessage(lines[i], call.messages[i])

\* a prompt was built for an empty-text message followed by another message
C17_Witness ==
    \E k \in PromptCallIndexes :
        /\ prompt_calls[k].messages = <<Msg2, Msg1>>
        /\ Len(prompt_calls[k].prompt.messages_text) = Len(prompt_calls[k].messages)
        /\ prompt_calls[k].prompt.messages_text[1].text = Str("")
        /\ prompt_calls[k].prompt.messages_text[2].text = Str("ship X")

LastBotMessageHeader == "# Last Bot Message from the Channel:"

CrossReferenceInstruction ==
    "- Refer to the last bot message from the channel when extracting todos to avoid duplicates."

\* C18: with a prior bot message the prompt has the "Last Bot Message"
\* section, carrying that message's timestamp and text, and the
\* cross-reference instruction; without one it has neither
C18_BotSectionIffContext ==
    \A k \in PromptCallIndexes :
        LET call == prompt_calls[k]
            bot == call.last_bot_message
        IN  IF bot # NoBotMessage
            THEN /\ call.prompt.bot_message_text =
                        <<LastBotMessageHeader, bot.timestamp_readable, bot.text>>
                 /\ call.prompt.special_instructions = CrossReferenceInstruction
            ELSE /\ call.prompt.bot_message_text = <<>>
                 /\ call.prompt.special_instructions = ""

\* one prompt was built with a prior bot message and one without
C18_Witness ==
    \E k, l \in PromptCallIndexes :
        /\ prompt_calls[k].last_bot_message = BotMessage1
        /\ prompt_calls[k].prompt.bot_message_text # <<>>
        /\ prompt_calls[l].last_bot_message = NoBotMessage
        /\ prompt_calls[l].prompt.special_instructions = ""

IsExtractTodosSchema(tools) ==
    LET Requires(object, field) ==
            \E i \in 1..Len(object.required) : object.required[i] = field
    IN  /\ Len(tools) = 1
        /\ tools[1].type = "function"
        /\ tools[1].name = "extract_todos"
        /\ tools[1].parameters.type = "object"
        /\ Requires(tools[1].parameters, "todos")
        /\ tools[1].parameters.todos.type = "array"
        /\ LET items == tools[1].parameters.todos.items
           IN  /\ items.type = "object"
               /\ Requires(items, "description")
               /\ ~Requires(items, "assigned_to")
               /\ items.description.type = "string"
               /\ items.assigned_to.type = "string"
               /\ items.assigned_to.nullable

\* C20: the tool schema of every extraction is the extract_todos schema and
\* the same as that of every other extraction, whatever the messages and the
\* prior bot message, and whatever was done to a schema returned earlier
C20_SchemaStatic ==
    /\ \A k \in PromptCallIndexes : IsExtractTodosSchema(prompt_calls[k].tools)
    /\ \A k, l \in PromptCallIndexes : prompt_calls[k].tools = prompt_calls[l].tools

\* a schema was built after the one returned before had been changed, for
\* other messages than before
C20_Witness ==
    \E k, l \in PromptCallIndexes :
        /\ k < l
        /\ prompt_calls[l].earlier_schema_changed
        /\ prompt_calls[k].messages # prompt_calls[l].messages
        /\ prompt_calls[k].last_bot_message # prompt_calls[l].last_bot_message


(***************************************************************************)
(* Interleaved extractions.                                                *)
(***************************************************************************)

\* the requests an invocation sent, and the replies that answer it
RequestsBy(self) == {k \in 1..Len(transport) : transport[k].by = self}
RepliesTo(self) == {k \in 1..Len(replies) : replies[k].to = self}

\* C21: when two extract_todos invocations run interleaved on one extractor
\* and one client, the request of each carries the prompt of its own
\* messages and last bot message, and each returns what extract_todos
\* returns for its own messages and the reply to its own request
C21_InvocationsIsolated ==
    \A self \in Invocations :
        LET frame == frames[self]
        IN  /\ \A k \in RequestsBy(self) :
                  transport[k].call =
                      generate_with_tools_call(
                          get_todo_extraction_prompt(frame.messages, frame.last_bot_message),
                          get_todo_extraction_function_schema)
            /\ (frame.pc = "done" /\ frame.messages # <<>>) =>
                  \E k \in RepliesTo(self) :
                      frame.result =
                          extract_todos(frame.messages, frame.last_bot_message,
                                        replies[k].gateway).outcome

\* both invocations are done; the request of a left first and the reply to b
\* arrived first; their messages, replies and results differ
C21_Witness ==
    /\ \A self \in Invocations : frames[self].pc = "done"
    /\ Len(transport) = Cardinality(Invocations)
    /\ transport[1].by = "a"
    /\ replies[1].to = "b"
    /\ frames["a"].messages # frames["b"].messages
    /\ frames["a"].result.value # <<>>
    /\ frames["b"].result.value # <<>>
    /\ frames["a"].result # frames["b"].result


(***************************************************************************)
(* The two backends.                                                       *)
(***************************************************************************)

\* the call was made, the backend replied with a message and the call returned
BackendReplied ==
    /\ client_pc = "called"
    /\ backend.kind = "message"
    /\ client_result.raised = NoExc

\* the client of the other class with the same key and model
OtherClient ==
    Client(IF created_client.class = "OpenAIClient" THEN "GroqClient" ELSE "OpenAIClient",
           created_client.api_key, created_client.model)

\* both clients hand back the same result for the call and the reply
SameResultFromBoth ==
    generate_with_tools(OtherClient, client_call, backend).outcome = client_result

\* the result's tool_calls are the reply's calls of type "function", in the
\* reply's order, with id, name and arguments text as the reply has them
FunctionCallsPassedThrough ==
    LET items == IF backend.message.tool_calls.t = "list"
                 THEN backend.message.tool_calls.items
                 ELSE <<>>
        kept == {k \in 1..Len(items) : items[k].type = "function"}
        Nth(j) == CHOOSE k \in kept : Cardinality({m \in kept : m <= k}) = j
        got == client_result.value.tool_calls
    IN  /\ Len(got) = Cardinality(kept)
        /\ \A j \in 1..Len(got) :
              /\ got[j].id = items[Nth(j)].id
              /\ got[j].function.name = items[Nth(j)].name
              /\ got[j].function.arguments = items[Nth(j)].arguments

\* the reply's text, the empty string when the reply has none
ReplyText ==
    IF backend.message.content.t = "str" THEN backend.message.content.chars ELSE <<>>

\* C22 as stated: for the same reply both clients return the same result,
\* whose content is the reply's text (empty when there is none) and whose
\* tool_calls are the reply's function-type calls, in order and unchanged
C22_BackendsSameContract ==
    BackendReplied =>
        /\ SameResultFromBoth
        /\ client_result.value.content = ReplyText
        /\ FunctionCallsPassedThrough

\* C22, amended: for the same reply both clients return the same result,
\* whose content is the reply's text with the white space at both ends
\* removed (empty when there is none) and whose tool_calls are the reply's
\* function-type calls, in order and unchanged
C22_BackendsSameContractStripped ==
    BackendReplied =>
        /\ SameResultFromBoth
        /\ client_result.value.content = Strip(ReplyText)
        /\ FunctionCallsPassedThrough

\* a reply whose text has white space at both ends and whose tool calls hold
\* a call of another type before a function call
C22_Witness ==
    /\ BackendReplied
    /\ backend.message.content.chars = <<" ", "o", "k", " ">>
    /\ client_result.value.content = <<"o", "k">>
    /\ backend.message.tool_calls.t = "list"
    /\ Len(backend.message.tool_calls.items) > Len(client_result.value.tool_calls)
    /\ backend.message.tool_calls.items[1].type # "function"
    /\ Len(client_result.value.tool_calls) = 1


(***************************************************************************)
(* The Slack connector.                                                    *)
(***************************************************************************)

\* get_channel_messages was called and returned its messages
Fetched == slack_pc = "fetched" /\ slack_result.raised = "none"

\* the user IDs of the platform
PlatformUserIds == LookupIds \cup {"USLACKBOT"}

\* a token that shows a raw user ID: a mention, or an "@" followed by the ID
RawUserIdToken(token) ==
    \/ token.kind = "mention"
    \/ token.kind = "name" /\ token.v \in PlatformUserIds

\* C23: in every message get_channel_messages returns, whichever user
\* lookups fail, the text has no token showing a raw user ID, and the author
\* (user and user_name) is a name, not a user ID
C23_NoRawUserIds ==
    Fetched =>
        \A k \in 1..Len(slack_result.value) :
            LET msg == slack_result.value[k]
            IN  /\ \A t \in 1..Len(msg.text.tokens) : ~RawUserIdToken(msg.text.tokens[t])
                /\ msg.user \notin PlatformUserIds
                /\ msg.user_name \notin PlatformUserIds

\* C24: get_channel_messages returns at most limit messages, oldest first:
\* the first limit messages of the newest-first history, in reverse
C24_ChronologicalWindow ==
    Fetched =>
        LET got == slack_result.value
            history == slack_world.history
        IN  /\ Len(got) <= slack_call.limit
            /\ Len(got) <= Len(history)
            /\ Len(got) = slack_call.limit \/ Len(got) = Len(history)
            /\ \A k \in 1..Len(got) : got[k].ts = history[Len(got) - k + 1].ts
            /\ \A k \in 1..Len(got) : \A l \in 1..Len(got) :
                  k < l => got[k].ts < got[l].ts

\* a history longer than the limit was fetched: the oldest message is cut
C24_Witness ==
    /\ Fetched
    /\ Len(slack_world.history) > slack_call.limit
    /\ Len(slack_result.value) > 1
    /\ slack_result.value[1].ts # slack_world.history[Len(slack_world.history)].ts

\* get_last_bot_message was called
Looked == slack_pc = "looked"

\* the author of the message is this bot: its user is the bot's user ID, or
\* its bot_id resolves through bots.info to the bot's user ID
AuthorIsThisBot(msg) ==
    \/ msg.user = "UBOT"
    \/ /\ msg.bot_id # ""
       /\ slack_world.bots[msg.bot_id].ok
       /\ slack_world.bots[msg.bot_id].user_id = "UBOT"

\* a platform method the call needs raises
PlatformError ==
    \/ slack_world.cached = "" /\ ~slack_world.auth_ok
    \/ ~IsChannelId(slack_call.channel) /\ ~slack_world.channels_ok
    \/ ~slack_world.history_ok

\* C25: get_last_bot_message never raises; it returns nothing or a message
\* of the history whose author is this bot; a message of another bot or one
\* whose bot lookup fails is never returned; a platform error gives nothing
C25_OnlyOwnBotMessage ==
    Looked =>
        /\ slack_result.raised = "none"
        /\ Len(slack_result.value) <= 1
        /\ \A k \in 1..Len(slack_result.value) :
              /\ \E h \in 1..Len(slack_world.history) :
                    slack_result.value[k] = slack_world.history[h]
              /\ AuthorIsThisBot(slack_result.value[k])
        /\ PlatformError => slack_result.value = <<>>

\* the newest message is of another bot or its lookup fails; the message
\* behind it, by this bot, is the one returned
C25_Witness ==
    /\ Looked
    /\ Len(slack_world.history) > 1
    /\ slack_world.history[1].bot_id # ""
    /\ ~AuthorIsThisBot(slack_world.history[1])
    /\ slack_result.value = <<slack_world.history[2]>>


(***************************************************************************)
(* The service globals.                                                    *)
(***************************************************************************)

ServiceCallIndexes == 1..Len(service_log)

\* the constructor of the service ran in the call
Attempted(call, service) ==
    \E k \in 1..Len(call.attempted) : call.attempted[k] = service

\* C29: after any sequence of get_services calls, failing ones included,
\* todo_extractor is set exactly when llm_client is set and holds that same
\* client; a service that is set is neither constructed again nor replaced;
\* a failed construction leaves its global unset and the next call runs the
\* constructor again
C29_ServicesInitializedOnce ==
    /\ service_globals.todo_extractor # NoExtractor <=> service_globals.llm_client # NoObject
    /\ service_globals.todo_extractor.llm_client = service_globals.llm_client
    /\ \A i \in ServiceCallIndexes :
          LET call == service_log[i]
              before == IF i = 1
                        THEN Globals(NoObject, NoExtractor, NoSlackService)
                        ELSE service_log[i - 1].globals
          IN  /\ before.llm_client # NoObject =>
                    /\ ~Attempted(call, "llm")
                    /\ call.globals.llm_client = before.llm_client
                    /\ call.globals.todo_extractor = before.todo_extractor
              /\ before.slack_service # NoSlackService =>
                    /\ ~Attempted(call, "slack")
                    /\ call.globals.slack_service = before.slack_service
              /\ before.llm_client = NoObject =>
                    /\ Attempted(call, "llm")
                    /\ call.globals.llm_client = NoObject <=> call.raised # NoExc /\ ~Attempted(call, "slack")
              /\ (before.slack_service = NoSlackService /\ call.globals.llm_client # NoObject) =>
                    /\ Attempted(call, "slack")
                    /\ call.globals.slack_service = NoSlackService <=> call.raised # NoExc

\* the client's construction failed, then succeeded while the Slack
\* service's failed, then the Slack service was constructed: three calls,
\* the client made in the second
C29_Witness ==
    /\ Len(service_log) = MaxServiceCalls
    /\ service_log[1].raised # NoExc
    /\ service_log[1].globals.llm_client = NoObject
    /\ service_log[2].raised # NoExc
    /\ service_log[2].globals.llm_client # NoObject
    /\ service_log[2].globals.slack_service = NoSlackService
    /\ service_globals.slack_service # NoSlackService
    /\ service_globals.llm_client = service_log[2].globals.llm_client


(***************************************************************************)
(* POST /extract-todos.                                                    *)
(***************************************************************************)

Answered == api_pc = "answered"

\* the channels the request selects: those the bot is a member of, and of
\* these the ones named in channel_ids when it is given
SelectedChannels ==
    LET Selects(channel) ==
            /\ channel.is_member
            /\ api_request.channel_ids # <<>> =>
                  \E k \in 1..Len(api_request.channel_ids) :
                      api_request.channel_ids[k] = channel.id
    IN  SelectSeq(api_platform.channels, Selects)

\* fetching raises for the channel, or a todo extracted for it cannot be
\* converted
ChannelFails(id) ==
    LET does == api_platform.behaviour[id]
    IN  \/ does.fetch_raises
        \/ /\ does.count > 0
           /\ \E k \in 1..Len(does.todos) : does.todos[k].description.t # "str"

\* C26: when fetching, extracting or converting fails for a channel, that
\* channel gets a result with no todos and zero counts, and the response
\* holds one result per selected channel, in channel order, with
\* total_channels_processed equal to their number
C26_ChannelFailureConfined ==
    (/\ Answered
     /\ api_platform.list_ok
     /\ \E k \in 1..Len(SelectedChannels) : ChannelFails(SelectedChannels[k].id))
    => /\ api_response.status = 200
       /\ Len(api_response.channels) = Len(SelectedChannels)
       /\ api_response.total_channels_processed = Len(SelectedChannels)
       /\ \A k \in 1..Len(SelectedChannels) :
             /\ api_response.channels[k].channel_id = SelectedChannels[k].id
             /\ ChannelFails(SelectedChannels[k].id) =>
                   /\ api_response.channels[k].todos = <<>>
                   /\ api_response.channels[k].total_messages = 0
                   /\ api_response.channels[k].todos_found = 0

RECURSIVE SumOver(_, _, _)
SumOver(results, k, field) ==
    IF k > Len(results) THEN 0 ELSE results[k][field] + SumOver(results, k + 1, field)

Posts == {k \in 1..Len(api_effects) : api_effects[k].op = "post"}

\* the platform with every post succeeding
WithoutPostFailures ==
    [api_platform EXCEPT
        !.behaviour = [id \in ChannelIds |-> [api_platform.behaviour[id] EXCEPT
                                                !.post_raises = FALSE]]]

\* C28: a post is made only when post_to_slack is true and the extraction
\* for that channel returned a todo, at most once per channel; failing posts
\* change neither the response nor the calls made for later channels
C28_PostOnlyFoundTodos ==
    Answered =>
        /\ \A k \in Posts :
              /\ api_request.post_to_slack
              /\ api_platform.behaviour[api_effects[k].channel].todos # <<>>
        /\ \A k \in Posts : \A l \in Posts :
              api_effects[k].channel = api_effects[l].channel => k = l
        /\ LET calm == extract_todos_from_slack(api_request, WithoutPostFailures)
           IN  /\ api_response = calm.response
               /\ Len(api_effects) = Len(calm.effects)
               /\ \A k \in 1..Len(api_effects) :
                     /\ api_effects[k].op = calm.effects[k].op
                     /\ api_effects[k].channel = calm.effects[k].channel

\* the post for one channel failed, its todos are in the response, and a
\* later channel was fetched and posted to
C28_Witness ==
    /\ Answered
    /\ api_response.status = 200
    /\ \E k \in Posts : \E l \in Posts :
          /\ k < l
          /\ ~api_effects[k].ok
          /\ api_effects[l].ok
          /\ api_response.channels[1].channel_id = api_effects[k].channel
          /\ api_response.channels[1].todos_found > 1

\* the calls made for a channel: fetching, extracting, posting
ChannelEffects == {k \in 1..Len(api_effects) : api_effects[k].op # "list"}

\* C30: with a non-empty channel_ids, messages are fetched, todos extracted
\* and posts made only for channels the bot is a member of and whose ID is in
\* the list; when there is no such channel the request fails with status 404
\* and none of these calls is made
C30_OnlyRequestedMemberChannels ==
    (Answered /\ api_request.channel_ids # <<>>) =>
        /\ \A k \in ChannelEffects :
              /\ \E r \in 1..Len(api_request.channel_ids) :
                    api_request.channel_ids[r] = api_effects[k].channel
              /\ \E c \in 1..Len(api_platform.channels) :
                    /\ api_platform.channels[c].id = api_effects[k].channel
                    /\ api_platform.channels[c].is_member
        /\ (api_platform.list_ok /\ SelectedChannels = <<>>) =>
              /\ api_response.status = 404
              /\ ChannelEffects = {}

\* the bot is a member of two channels, one of them requested: calls are made
\* for that one, a post among them
C30_Witness ==
    /\ Answered
    /\ api_request.channel_ids = <<"C1">>
    /\ Len(api_platform.channels) > 1
    /\ \A c \in 1..Len(api_platform.channels) : api_platform.channels[c].is_member
    /\ Posts # {}
    /\ Len(api_response.channels) = 1

==============================================================================
